---- MODULE Spec2Model ----
(***************************************************************************)
(* Resource lifecycle core of go-monorepo-playground:                      *)
(*   - pkg/queue/nats Client (Publish / Subscribe / Close / IsConnected)   *)
(*     on top of a nats.Conn whose status changes asynchronously;          *)
(*   - the ShutdownManager registries of pkg/queue, pkg/db and             *)
(*     pkg/observability and the Setup functions that fill them.           *)
(*                                                                         *)
(* The nats.Conn itself is a third-party transport.  It is modelled by its *)
(* status word and by the calls the Client makes on it (IsConnected,       *)
(* IsClosed, Publish, Subscribe, Drain, Close) and the events it reports   *)
(* through the handlers NewClient installs.                                *)
(***************************************************************************)
EXTENDS Integers, Sequences, FiniteSets, TLC

VARIABLES
    nc,            \* Client.nc: NIL or CONN
    status,        \* status of the nats.Conn behind nc ("NONE": no Conn was made)
    opts,          \* Client.opts after NewClient applied the defaults
    reconnects,    \* failed reconnect attempts since the last (re)connect
    newClientRet,  \* what NewClient returned: "none" (not called), "client", "error"
    readers,       \* callers holding Client.mu for reading
    writer,        \* caller holding Client.mu exclusively (0: nobody)
    pc,            \* position of each caller inside its method
    op,            \* method each caller is running
    seen,          \* state of the Client when the caller took the lock
    result,        \* value the method returned to the caller
    handoffs,      \* every nc.Publish / nc.Subscribe made: <<method, status at the call>>
    drainCalls,    \* number of nc.Drain() calls made by Close
    forceCloses,   \* number of nc.Close() calls made by Close
    closeReturned, \* whether some Close call has returned
    cleanupFuncs,  \* ShutdownManager.cleanupFuncs of each registry
    mgr,           \* whether Setup has produced the registry
    handle,        \* handle Setup returned for the subsystem: "absent" or "live"
    setupErr,      \* error Setup returned
    enabledCfg,    \* whether the configuration Setup was given enables the subsystem
    policy,        \* what the deployment's policy says of the subsystem
    acquire,       \* acquisition attempt of Setup: "skipped", "ok" or "failed"
    runs,          \* number of Cleanup calls made on each registry
    trace,         \* callbacks invoked by the last Cleanup call, in call order
    failed,        \* callbacks that failed in the last Cleanup call
    invoked,       \* number of invocations of every callback over all Cleanup calls
    ret,           \* error value the last Cleanup call returned
    now,           \* clock, in seconds
    closeStart,    \* time at which the running timed Close was called
    closeTook,     \* duration of the last timed Close call (-1: none)
    drainDeadline, \* time by which the transport gives up draining (-1: not draining)
    appPc,         \* position of the producer's main goroutine (NewApp, Run, shutdown)
    publisher,     \* ProducerService.publisher: "nil", "nilClient" or "client"
    queueMgr,      \* whether App.queueMgr is non-nil
    obsMgr,        \* whether App.observabilityMgr is non-nil
    queueEnabled,  \* config.Queue.Enabled of the producer
    server,        \* the HTTP server: "none", "serving", "failed", "closed"
    signalled,     \* "no", or where the server stood when the signal came
    startupPub,    \* the goroutine publishing the startup message
    pubOutcomes,   \* how the publish attempts of the application ended
    requests,      \* number of /message/create requests served
    shutdownDeadline, \* deadline of shutdownCtx (-1: not made yet)
    cleaning,      \* registry whose Cleanup is running ("none": no Cleanup is running)
    cleanupStart,  \* time at which the last Cleanup of each registry was called (-1: never)
    cleanupParent, \* deadline of the context that Cleanup was called with (-1: none)
    cleanupDeadline, \* deadline of the cleanupCtx its callbacks were given
    hangs,         \* callbacks of the running Cleanup that never complete on their own
    pmPc,          \* position of each caller inside ProducerService.PublishMessage
    pmArgs,        \* message and subject of each caller's PublishMessage call
    pmData,        \* payload each caller marshalled
    pmRet,         \* what each caller's PublishMessage call returned
    pmCalls,       \* PublishMessage calls made so far, per subject
    mock,          \* the MessagePublisher under the service: "nil", "working" or "failing"
    received,      \* Publish calls the MessagePublisher received: <<subject, data>> -> count
    srvGo,         \* goroutine running Server.Start: "none", "spawned", "created", "serving", "returned"
    srvField,      \* Server.server: "nil" or "set"
    inShutdown,    \* whether Shutdown was called on the http.Server
    listening,     \* whether the http.Server accepts connections
    active,        \* connections being served
    exited,        \* whether the process has ended
    startRet,      \* what Server.Start returned ("none": it has not)
    shutdownRet,   \* what Server.Shutdown returned ("none": it has not)
    given,         \* the Options NewClient was called with
    obsVariant,    \* which observability.Setup was called: "none", "earlier" or "current"
    obsInit,       \* how each telemetry component's initialisation went in Setup
    mainPc         \* main of the hello service: "start", "serving", "returned", "exit1",
                   \* "panicked"

clientVars == <<nc, status, opts, reconnects, newClientRet, readers, writer, pc, op,
                seen, result, handoffs, drainCalls, forceCloses, closeReturned>>
registryVars == <<cleanupFuncs, mgr, handle, setupErr, enabledCfg, policy, acquire,
                  runs, trace, failed, invoked, ret>>
timeVars == <<now, closeStart, closeTook, drainDeadline>>
appVars == <<appPc, publisher, queueMgr, obsMgr, queueEnabled, server, signalled,
             startupPub, pubOutcomes, requests>>
deadlineVars == <<shutdownDeadline, cleaning, cleanupStart, cleanupParent,
                  cleanupDeadline, hangs>>
serviceVars == <<pmPc, pmArgs, pmData, pmRet, pmCalls, mock, received>>
serverVars == <<srvGo, srvField, inShutdown, listening, active, exited, startRet,
               shutdownRet>>
telemetryVars == <<obsVariant, obsInit, mainPc>>
producerVars == <<serviceVars, serverVars, given, telemetryVars>>
vars == <<clientVars, registryVars, timeVars, appVars, deadlineVars, producerVars>>

\* ------------------------------------------------------------------ bounds
NumCallers == 2
MaxCleanups == 2
MaxTime == 13
DrainGrace == 1
MaxRequests == 1
MaxPublishes == 3
MaxConns == 2
Quantum == 10

NIL == "nil"
CONN == "conn"
Callers == 1..NumCallers

\* ------------------------------------------------------------------ options
DefaultReconnectWait == 2
DefaultMaxReconnects == 60
DefaultDrainTimeout == 10

\* Options a caller of NewClient passes in (0 stands for "left unset").
OptionInputs ==
    [ReconnectWait : {0}, MaxReconnects : {-1, 1, 2}, DrainTimeout : {0}]

\* (variant: the options are taken as given)
WithDefaultsNone(o) == o

\* NewClient's defaulting of unset options.
WithDefaults(o) ==
    [ReconnectWait |-> IF o.ReconnectWait = 0 THEN DefaultReconnectWait ELSE o.ReconnectWait,
     MaxReconnects |-> IF o.MaxReconnects = 0 THEN DefaultMaxReconnects ELSE o.MaxReconnects,
     DrainTimeout  |-> IF o.DrainTimeout = 0 THEN DefaultDrainTimeout ELSE o.DrainTimeout]

\* Options of the timed runs: the drain timeout left unset, or set to 2 s.
TimedOptionInputs ==
    [ReconnectWait : {0}, MaxReconnects : {1}, DrainTimeout : {0, 2}]

\* The options the lock runs are made with: one reconnect attempt.
LockOptionInputs ==
    [ReconnectWait : {0}, MaxReconnects : {1}, DrainTimeout : {0}]

ZeroOptions == [ReconnectWait |-> 0, MaxReconnects |-> 0, DrainTimeout |-> 0]

\* ------------------------------------------------------------------ transport
\* nats.Conn.IsConnected: connected, or draining (a draining Conn still counts).
NatsIsConnected(s) == s \in {"CONNECTED", "DRAINING"}

\* nats.Conn.IsClosed
NatsIsClosed(s) == s = "CLOSED"

\* nats.Conn.Drain: fails on a closed Conn; on a reconnecting Conn it closes the
\* Conn and fails; otherwise it starts (or continues) the drain in the
\* background and returns nil at once.
NatsDrain(s) ==
    CASE s = "CLOSED"       -> [err |-> TRUE,  status |-> "CLOSED"]
      [] s = "RECONNECTING" -> [err |-> TRUE,  status |-> "CLOSED"]
      [] OTHER              -> [err |-> FALSE, status |-> "DRAINING"]

\* Results nc.Publish / nc.Subscribe can give in each status: a closed Conn
\* refuses, a reconnecting Conn buffers (or refuses when its buffer is full).
NatsSendResults(s) ==
    CASE s = "CONNECTED"    -> {"ok"}
      [] s = "RECONNECTING" -> {"ok", "ErrTransport"}
      [] OTHER              -> {"ErrTransport"}

\* (variant: the Conn was not given the reconnect cap)
MayReconnectAlways(o, n) == TRUE

\* (variant: NewClient does not hand its drain timeout to the Conn, which then
\* drains under the transport's own, longer default)
ConnDrainTimeoutUnset(o) == 30

\* The drain timeout the Conn works with: nats.DrainTimeout(opts.DrainTimeout).
ConnDrainTimeout(o) == o.DrainTimeout

\* Whether the reconnect policy allows one more attempt.
MayReconnect(o, n) == o.MaxReconnects < 0 \/ n < o.MaxReconnects

\* ------------------------------------------------------------------ Client
\* Client.IsConnected (a read under the shared lock).
IsConnected == nc # NIL /\ NatsIsConnected(status)

\* (variant: the guard without its nil test)
NotConnectedNoNil(n, s) == ~NatsIsConnected(s)

\* The guard of Publish and Subscribe: c.nc == nil || !c.nc.IsConnected().
NotConnected(n, s) == n = NIL \/ ~NatsIsConnected(s)

\* (variant: the guard without its nil test)
CloseNeededNoNil(n, s) == ~NatsIsClosed(s)

\* The guard of Close: c.nc != nil && !c.nc.IsClosed().
CloseNeeded(n, s) == n # NIL /\ ~NatsIsClosed(s)

\* (variant: Close forgets to clear c.nc)
KeptHandle == CONN

\* The value Close leaves in c.nc after the drain branch (c.nc = nil).
ReleasedHandle == NIL

\* How the Client looks to a caller that has just taken the lock: "closed"
\* after a Close call, "never" without a successful NewClient, "dead" when
\* the transport has closed by itself, "open" otherwise.
Observed ==
    IF closeReturned THEN "closed"
    ELSE IF newClientRet # "client" THEN "never"
    ELSE IF NatsIsClosed(status) THEN "dead"
    ELSE "open"

\* (variant: the Conn is made with nats.RetryOnFailedConnect, so that a failed
\* first dial leaves a Conn retrying in the background)
ConnectResultRetrying(ok) ==
    IF ok THEN [ret |-> "client", nc |-> CONN, status |-> "CONNECTED"]
    ELSE [ret |-> "error", nc |-> NIL, status |-> "RECONNECTING"]

\* nats.Connect as NewClient calls it, and what NewClient returns: a Client
\* around the connected Conn, or (nil, error) with no Conn made.
ConnectResult(ok) ==
    IF ok THEN [ret |-> "client", nc |-> CONN, status |-> "CONNECTED"]
    ELSE [ret |-> "error", nc |-> NIL, status |-> "NONE"]

\* NewClient: one nats.Connect with the defaulted options.
NewClient(o, ok) ==
    /\ newClientRet = "none"
    /\ ~closeReturned
    /\ \A t \in Callers : pc[t] = "idle"
    /\ opts' = WithDefaults(o)
    /\ nc' = ConnectResult(ok).nc
    /\ status' = ConnectResult(ok).status
    /\ newClientRet' = ConnectResult(ok).ret
    /\ UNCHANGED <<reconnects, readers, writer, pc, op, seen, result, handoffs,
                   drainCalls, forceCloses, closeReturned>>

\* c.mu.RLock() goes through when nobody holds c.mu exclusively.
CanRLock(w) == w = 0

\* (variant: Close takes the lock without waiting for the readers)
CanLockOverReaders(w, rs) == w = 0

\* c.mu.Lock() goes through when nobody holds c.mu, for reading or exclusively.
CanLock(w, rs) == w = 0 /\ rs = {}

\* Publish / Subscribe up to the connected check: RLock, then either return the
\* not-connected error (releasing the lock) or go on to the transport call.
\* The receiver is the Client NewClient returned, or a zero-value Client when
\* NewClient was not called; a failed NewClient returns no Client to call.
Call(t, m) ==
    /\ pc[t] = "idle"
    /\ newClientRet # "error"
    /\ CanRLock(writer)
    /\ op' = [op EXCEPT ![t] = m]
    /\ seen' = [seen EXCEPT ![t] = Observed]
    /\ IF NotConnected(nc, status)
         THEN /\ result' = [result EXCEPT ![t] = "ErrNotConnected"]
              /\ pc' = [pc EXCEPT ![t] = "ret"]
              /\ UNCHANGED readers
         ELSE /\ pc' = [pc EXCEPT ![t] = "forward"]
              /\ readers' = readers \cup {t}
              /\ UNCHANGED result
    /\ UNCHANGED <<nc, status, opts, reconnects, newClientRet, writer, handoffs,
                   drainCalls, forceCloses, closeReturned>>

\* Publish / Subscribe, the transport call: c.nc.Publish(subject, data) or
\* c.nc.Subscribe(subject, handler), then RUnlock and return.
Forward(t) ==
    /\ pc[t] = "forward"
    /\ handoffs' = handoffs \cup {<<op[t], status>>}
    /\ \E r \in NatsSendResults(status) : result' = [result EXCEPT ![t] = r]
    /\ readers' = readers \ {t}
    /\ pc' = [pc EXCEPT ![t] = "ret"]
    /\ UNCHANGED <<nc, status, opts, reconnects, newClientRet, writer, op, seen,
                   drainCalls, forceCloses, closeReturned>>

\* Close up to its guard: Lock, then either the drain branch or the
\* "already nil or closed" branch, which only unlocks.
CloseBegin(t) ==
    /\ pc[t] = "idle"
    /\ newClientRet # "error"
    /\ CanLock(writer, readers)
    /\ op' = [op EXCEPT ![t] = "Close"]
    /\ seen' = [seen EXCEPT ![t] = Observed]
    /\ IF CloseNeeded(nc, status)
         THEN /\ writer' = t
              /\ pc' = [pc EXCEPT ![t] = "drain"]
              /\ UNCHANGED <<result, closeReturned>>
         ELSE /\ result' = [result EXCEPT ![t] = "noop"]
              /\ pc' = [pc EXCEPT ![t] = "ret"]
              /\ closeReturned' = TRUE
              /\ UNCHANGED writer
    /\ UNCHANGED <<nc, status, opts, reconnects, newClientRet, readers, handoffs,
                   drainCalls, forceCloses>>

\* Close, err := c.nc.Drain(): on nil, c.nc = nil, Unlock and return.
CloseDrain(t) ==
    /\ pc[t] = "drain"
    /\ drainCalls' = drainCalls + 1
    /\ status' = NatsDrain(status).status
    /\ IF NatsDrain(status).err
         THEN /\ pc' = [pc EXCEPT ![t] = "force"]
              /\ UNCHANGED <<nc, writer, result, closeReturned>>
         ELSE /\ nc' = ReleasedHandle
              /\ writer' = 0
              /\ result' = [result EXCEPT ![t] = "drained"]
              /\ pc' = [pc EXCEPT ![t] = "ret"]
              /\ closeReturned' = TRUE
    /\ UNCHANGED <<opts, reconnects, newClientRet, readers, op, seen, handoffs,
                   forceCloses>>

\* Close after a failed drain: c.nc.Close(), c.nc = nil, Unlock and return.
CloseForce(t) ==
    /\ pc[t] = "force"
    /\ forceCloses' = forceCloses + 1
    /\ status' = "CLOSED"
    /\ nc' = ReleasedHandle
    /\ writer' = 0
    /\ result' = [result EXCEPT ![t] = "forced"]
    /\ pc' = [pc EXCEPT ![t] = "ret"]
    /\ closeReturned' = TRUE
    /\ UNCHANGED <<opts, reconnects, newClientRet, readers, op, seen, handoffs,
                   drainCalls>>

\* IsConnected up to its return statement: RLock.
IsConnectedBegin(t) ==
    /\ pc[t] = "idle"
    /\ newClientRet # "error"
    /\ CanRLock(writer)
    /\ op' = [op EXCEPT ![t] = "IsConnected"]
    /\ seen' = [seen EXCEPT ![t] = Observed]
    /\ readers' = readers \cup {t}
    /\ pc' = [pc EXCEPT ![t] = "query"]
    /\ UNCHANGED <<nc, status, opts, reconnects, newClientRet, writer, result,
                   handoffs, drainCalls, forceCloses, closeReturned>>

\* IsConnected: return c.nc != nil && c.nc.IsConnected(), then RUnlock.
IsConnectedEnd(t) ==
    /\ pc[t] = "query"
    /\ result' = [result EXCEPT ![t] =
                    IF IsConnected THEN "true" ELSE "false"]
    /\ readers' = readers \ {t}
    /\ pc' = [pc EXCEPT ![t] = "ret"]
    /\ UNCHANGED <<nc, status, opts, reconnects, newClientRet, writer, op, seen,
                   handoffs, drainCalls, forceCloses, closeReturned>>

\* The caller takes the returned value and is free to call again.
Return(t) ==
    /\ pc[t] = "ret"
    /\ pc' = [pc EXCEPT ![t] = "idle"]
    /\ op' = [op EXCEPT ![t] = "none"]
    /\ seen' = [seen EXCEPT ![t] = "none"]
    /\ result' = [result EXCEPT ![t] = "none"]
    /\ UNCHANGED <<nc, status, opts, reconnects, newClientRet, readers, writer,
                   handoffs, drainCalls, forceCloses, closeReturned>>

\* ------------------------------------------------------------------ transport events
\* (variant: a handler drops the Client's handle)
HandlerClearsHandle(n) == NIL

\* c.nc after a handler NewClient installed has run: the handlers only log.
AfterHandler(n) == n

\* No transport event touches the Client.
transportFrame ==
    /\ nc' = AfterHandler(nc)
    /\ UNCHANGED <<opts, newClientRet, readers, writer, pc, op, seen, result,
                   handoffs, drainCalls, forceCloses, closeReturned>>

\* DisconnectErrHandler: the connection is lost.  A connected Conn starts
\* reconnecting; a draining Conn is closed.
Disconnected ==
    /\ status \in {"CONNECTED", "DRAINING"}
    /\ status' = IF status = "CONNECTED" THEN "RECONNECTING" ELSE "CLOSED"
    /\ UNCHANGED reconnects
    /\ transportFrame

\* ReconnectHandler: a reconnect attempt succeeded.
Reconnected ==
    /\ status = "RECONNECTING"
    /\ MayReconnect(opts, reconnects)
    /\ status' = "CONNECTED"
    /\ reconnects' = 0
    /\ transportFrame

\* A reconnect attempt failed (counted only under a finite MaxReconnects).
ReconnectFailed ==
    /\ status = "RECONNECTING"
    /\ MayReconnect(opts, reconnects)
    /\ opts.MaxReconnects >= 0
    /\ reconnects' = reconnects + 1
    /\ UNCHANGED status
    /\ transportFrame

\* ClosedHandler: the Conn has closed, after the reconnect attempts ran out or
\* after the background drain ended.
ConnClosed ==
    /\ \/ status = "RECONNECTING" /\ ~MayReconnect(opts, reconnects)
       \/ status = "DRAINING"
    /\ status' = "CLOSED"
    /\ UNCHANGED reconnects
    /\ transportFrame

InitClient ==
    /\ nc = NIL
    /\ status = "NONE"
    /\ opts = ZeroOptions
    /\ reconnects = 0
    /\ newClientRet = "none"
    /\ readers = {}
    /\ writer = 0
    /\ pc = [t \in Callers |-> "idle"]
    /\ op = [t \in Callers |-> "none"]
    /\ seen = [t \in Callers |-> "none"]
    /\ result = [t \in Callers |-> "none"]
    /\ handoffs = {}
    /\ drainCalls = 0
    /\ forceCloses = 0
    /\ closeReturned = FALSE

\* ------------------------------------------------------------------ timed Close
\* Close with the clock: the statements of Close take no time of their own;
\* nc.Drain() may hold its caller for up to the Conn's drain timeout, and a
\* drain it leaves running in the background is given up by the Conn once
\* that timeout (and the final flush, DrainGrace) has passed.
TimedCloseBegin(t) ==
    /\ CloseBegin(t)
    /\ closeStart' = now
    /\ closeTook' = IF pc'[t] = "ret" THEN 0 ELSE -1
    /\ UNCHANGED <<now, drainDeadline>>

TimedCloseDrain(t, d) ==
    /\ CloseDrain(t)
    /\ d <= ConnDrainTimeout(opts)
    /\ now + d <= MaxTime
    /\ now' = now + d
    /\ drainDeadline' = IF status' = "DRAINING"
                          THEN now + ConnDrainTimeout(opts) + DrainGrace ELSE -1
    /\ closeTook' = IF pc'[t] = "ret" THEN now' - closeStart ELSE -1
    /\ UNCHANGED closeStart

TimedCloseForce(t) ==
    /\ CloseForce(t)
    /\ closeTook' = now - closeStart
    /\ UNCHANGED <<now, closeStart, drainDeadline>>

\* One second passes.  No time passes inside Close outside nc.Drain(), and a
\* draining Conn closes before its deadline is overrun.
Tick ==
    /\ now < MaxTime
    /\ writer = 0
    /\ status = "DRAINING" => now < drainDeadline
    /\ now' = now + 1
    /\ UNCHANGED <<closeStart, closeTook, drainDeadline>>
    /\ UNCHANGED <<clientVars, registryVars, appVars, deadlineVars, producerVars>>

\* ------------------------------------------------------------------ errors
\* Error values: nil, the error of one callback, or what errors.Join builds.
NilErr == [kind |-> "nil"]
Leaf(c) == [kind |-> "leaf", of |-> c]
IsNil(e) == e.kind = "nil"

\* (variant: the newer error is put in front of what was joined before)
JoinNewestFirst(a, b) ==
    LET kept == SelectSeq(<<b, a>>, LAMBDA e : ~IsNil(e))
    IN  IF kept = <<>> THEN NilErr ELSE [kind |-> "join", errs |-> kept]

\* errors.Join(a, b): nil arguments are dropped; nil when nothing is left,
\* otherwise a new error wrapping the remaining ones in argument order.
Join(a, b) ==
    LET kept == SelectSeq(<<a, b>>, LAMBDA e : ~IsNil(e))
    IN  IF kept = <<>> THEN NilErr ELSE [kind |-> "join", errs |-> kept]

\* The callback errors an error value wraps, in the order its message lists
\* them (depth first, left to right).
RECURSIVE Flatten(_)
Flatten(e) ==
    CASE e.kind = "nil"  -> <<>>
      [] e.kind = "leaf" -> <<e.of>>
      [] OTHER ->
           IF Len(e.errs) = 1 THEN Flatten(e.errs[1])
           ELSE Flatten(e.errs[1]) \o Flatten(e.errs[2])

Range(q) == {q[i] : i \in DOMAIN q}
Reverse(q) == [i \in 1..Len(q) |-> q[Len(q) + 1 - i]]

\* ------------------------------------------------------------------ registries
Registries == {"queue", "db", "observability"}

\* The cleanup callbacks the Setup functions register.
NatsClose == "natsClient.Close"
PgClose == "pgClient.Close"
ObsCallbacks ==
    <<"loggerProvider.Shutdown", "tracing.shutdown", "sentry.CleanUp", "pyroscope.cleanup">>
Callbacks == {NatsClose, PgClose} \cup Range(ObsCallbacks)

\* Callbacks whose body ends in "return nil": they cannot fail.
AlwaysNil == {NatsClose, PgClose}

\* (variant: the loop walks the slice front to back)
LoopIndexForward(n, k) == k

\* The index the Cleanup loop visits in its k-th iteration over n callbacks:
\* for i := len(s.cleanupFuncs) - 1; i >= 0; i-- (indices from 1 here).
LoopIndex(n, k) == n + 1 - k

\* (variant: err = fn(cleanupCtx) whenever fn fails, dropping what was joined)
AccumulateLast(err, e) == IF IsNil(e) THEN err ELSE e

\* The body of the loop: err = errors.Join(err, fn(cleanupCtx)).
Accumulate(err, e) == Join(err, e)

\* ShutdownManager.Cleanup's loop from iteration k on: calls fn, joins what it
\* returned, goes on whatever it returned.  fails: the callbacks that fail.
RECURSIVE CleanupLoop(_, _, _, _, _)
CleanupLoop(funcs, k, err, called, fails) ==
    IF k > Len(funcs) THEN [err |-> err, called |-> called]
    ELSE LET fn == funcs[LoopIndex(Len(funcs), k)]
             e  == IF fn \in fails THEN Leaf(fn) ELSE NilErr
         IN  CleanupLoop(funcs, k + 1, Accumulate(err, e), Append(called, fn), fails)

\* (variant: Cleanup consumes the slice)
FuncsDrained(funcs) == <<>>

\* s.cleanupFuncs after Cleanup has returned: Cleanup does not touch the slice.
FuncsAfterCleanup(funcs) == funcs

\* Client.Close run to completion by one caller (the queue callback).
CloseEffect(n, s) ==
    IF CloseNeeded(n, s)
      THEN [nc |-> ReleasedHandle,
            status |-> IF NatsDrain(s).err THEN "CLOSED" ELSE NatsDrain(s).status,
            drains |-> 1,
            forced |-> IF NatsDrain(s).err THEN 1 ELSE 0]
      ELSE [nc |-> n, status |-> s, drains |-> 0, forced |-> 0]

\* ShutdownManager.Cleanup on registry r.
Cleanup(r, fails) ==
    /\ mgr[r]
    /\ runs[r] < MaxCleanups
    /\ \E out \in {CleanupLoop(cleanupFuncs[r], 1, NilErr, <<>>, fails)} :
         /\ trace' = [trace EXCEPT ![r] = out.called]
         /\ ret' = [ret EXCEPT ![r] = out.err]
         /\ invoked' = [invoked EXCEPT ![r] =
                          [c \in Callbacks |->
                             @[c] + Cardinality({i \in DOMAIN out.called : out.called[i] = c})]]
         /\ IF NatsClose \in Range(out.called)
              THEN \E eff \in {CloseEffect(nc, status)} :
                     /\ nc' = eff.nc
                     /\ status' = eff.status
                     /\ drainCalls' = drainCalls + eff.drains
                     /\ forceCloses' = forceCloses + eff.forced
                     /\ closeReturned' = TRUE
              ELSE UNCHANGED <<nc, status, drainCalls, forceCloses, closeReturned>>
    /\ failed' = [failed EXCEPT ![r] = fails]
    /\ runs' = [runs EXCEPT ![r] = @ + 1]
    /\ cleanupFuncs' = [cleanupFuncs EXCEPT ![r] = FuncsAfterCleanup(@)]
    /\ UNCHANGED <<opts, reconnects, newClientRet, readers, writer, pc, op, seen,
                   result, handoffs>>
    /\ UNCHANGED <<mgr, handle, setupErr, enabledCfg, policy, acquire>>

\* ------------------------------------------------------------------ Setup
\* queue.Setup maps only URL, name, ReconnectWait and MaxReconnects of the
\* configuration into the options: DrainTimeout is left unset.
QueueOptionInputs ==
    [ReconnectWait : {DefaultReconnectWait}, MaxReconnects : {-1, 2}, DrainTimeout : {0}]

\* The reconnect settings of the queue configuration: as envconfig fills
\* them with nothing set in the environment, and as a deployment may set them.
DefaultQueueConfig == [NatsReconnectWait |-> 2, NatsMaxReconnects |-> -1]
QueueConfigs ==
    {DefaultQueueConfig} \cup [NatsReconnectWait : {0, 5}, NatsMaxReconnects : {0, 3}]

\* setupNats: the Options made of the configuration.
NatsOptions(cfg) ==
    [ReconnectWait |-> cfg.NatsReconnectWait,
     MaxReconnects |-> cfg.NatsMaxReconnects,
     DrainTimeout  |-> 0]

\* What the deployment's policy can say of a subsystem.  No field of the
\* configuration carries it and no Setup reads it.
Policies == {"mandatory", "degradable"}

\* (variant: the enabled flag is not consulted)
ShouldAcquireAlways(enabled) == TRUE

\* if cfg.NatsEnabled / if cfg.DbEnabled: acquisition is attempted only for an
\* enabled subsystem.
ShouldAcquire(enabled) == enabled

\* (variant: the close function is never appended)
RegisteredNever(funcs, h, fn) == funcs

\* The registry after the acquisition: the client's close function is
\* appended when a client was made.
Registered(funcs, h, fn) == IF h = "live" THEN Append(funcs, fn) ELSE funcs

\* The error queue.Setup and db.Setup return: an acquisition error is logged
\* and reset to nil ("will not block startup").
SetupError(acquired) == FALSE

\* queue.Setup (with setupNats): a disabled or failed NATS leaves an absent
\* client, an empty registry and no error.
QueueSetup(enabled, mandatory, o, ok) ==
    /\ ~mgr["queue"]
    /\ mgr' = [mgr EXCEPT !["queue"] = TRUE]
    /\ enabledCfg' = [enabledCfg EXCEPT !["queue"] = enabled]
    /\ policy' = [policy EXCEPT !["queue"] = mandatory]
    /\ IF ShouldAcquire(enabled)
         THEN /\ NewClient(o, ok)
              /\ acquire' = [acquire EXCEPT !["queue"] = IF ok THEN "ok" ELSE "failed"]
              /\ handle' = [handle EXCEPT !["queue"] =
                              IF newClientRet' = "client" THEN "live" ELSE "absent"]
         ELSE /\ acquire' = [acquire EXCEPT !["queue"] = "skipped"]
              /\ handle' = [handle EXCEPT !["queue"] = "absent"]
              /\ UNCHANGED clientVars
    /\ cleanupFuncs' = [cleanupFuncs EXCEPT !["queue"] =
                          Registered(@, handle'["queue"], NatsClose)]
    /\ setupErr' = [setupErr EXCEPT !["queue"] = SetupError(acquire'["queue"])]
    /\ UNCHANGED <<runs, trace, failed, invoked, ret>>

\* db.Setup: same shape, around postgres.NewClient.
DbSetup(enabled, mandatory, ok) ==
    /\ ~mgr["db"]
    /\ mgr' = [mgr EXCEPT !["db"] = TRUE]
    /\ enabledCfg' = [enabledCfg EXCEPT !["db"] = enabled]
    /\ policy' = [policy EXCEPT !["db"] = mandatory]
    /\ acquire' = [acquire EXCEPT !["db"] =
                     IF ShouldAcquire(enabled) THEN (IF ok THEN "ok" ELSE "failed")
                     ELSE "skipped"]
    /\ handle' = [handle EXCEPT !["db"] = IF acquire'["db"] = "ok" THEN "live" ELSE "absent"]
    /\ cleanupFuncs' = [cleanupFuncs EXCEPT !["db"] = Registered(@, handle'["db"], PgClose)]
    /\ setupErr' = [setupErr EXCEPT !["db"] = SetupError(acquire'["db"])]
    /\ UNCHANGED <<runs, trace, failed, invoked, ret>>
    /\ UNCHANGED clientVars

\* Configurations and outcomes of the telemetry components.
ObsConfigs ==
    [TracingURL : BOOLEAN, TracingEnabled : BOOLEAN, SentryEnabled : BOOLEAN,
     SentryDsn : BOOLEAN, PyroscopeEnabled : BOOLEAN, PyroscopeURL : BOOLEAN]
ObsOutcomes ==
    [resource : BOOLEAN, exporter : BOOLEAN, tracing : BOOLEAN, sentry : BOOLEAN,
     pyroscope : BOOLEAN, logger : BOOLEAN]

\* setupOtelLogging: registers loggerProvider.Shutdown once the exporter exists.
setupOtelLogging(funcs, cfg, out) ==
    IF cfg.TracingURL /\ out.exporter THEN Append(funcs, ObsCallbacks[1]) ELSE funcs

\* setupTracing
setupTracing(funcs, cfg, out) ==
    IF cfg.TracingEnabled /\ cfg.TracingURL /\ out.tracing
      THEN Append(funcs, ObsCallbacks[2]) ELSE funcs

\* setupSentry
setupSentry(funcs, cfg, out) ==
    IF cfg.SentryEnabled /\ cfg.SentryDsn /\ out.sentry
      THEN Append(funcs, ObsCallbacks[3]) ELSE funcs

\* setupPyroscope
setupPyroscope(funcs, cfg, out) ==
    IF cfg.PyroscopeEnabled /\ cfg.PyroscopeURL /\ out.pyroscope
      THEN Append(funcs, ObsCallbacks[4]) ELSE funcs

\* observability.Setup: no manager when the OTel resource cannot be built; a
\* failing component is logged and skipped; a failing logger is an error.
\* The applications set observability up before anything else.
ObsSetupOf(cfg, out) ==
    /\ \A r \in Registries : ~mgr[r] /\ handle[r] = "none"
    /\ handle' = [handle EXCEPT !["observability"] = "absent"]
    /\ enabledCfg' = [enabledCfg EXCEPT !["observability"] = TRUE]
    /\ UNCHANGED policy
    /\ acquire' = [acquire EXCEPT !["observability"] =
                     IF out.resource /\ out.logger THEN "ok" ELSE "failed"]
    /\ IF ~out.resource
         THEN /\ setupErr' = [setupErr EXCEPT !["observability"] = TRUE]
              /\ UNCHANGED <<mgr, cleanupFuncs>>
         ELSE /\ mgr' = [mgr EXCEPT !["observability"] = TRUE]
              /\ cleanupFuncs' = [cleanupFuncs EXCEPT !["observability"] =
                    setupPyroscope(setupSentry(setupTracing(
                        setupOtelLogging(@, cfg, out), cfg, out), cfg, out), cfg, out)]
              /\ setupErr' = [setupErr EXCEPT !["observability"] = ~out.logger]
    /\ UNCHANGED <<runs, trace, failed, invoked, ret>>
    /\ UNCHANGED clientVars

\* observability.Setup under every configuration and outcome.
ObsSetup == \E cfg \in ObsConfigs, out \in ObsOutcomes : ObsSetupOf(cfg, out)

\* ------------------------------------------------------------------ Setup, component by component
\* What observability.Setup initialises, in its order, and the cleanup each
\* telemetry component registers.
ComponentOrder == <<"resource", "exporter", "tracing", "sentry", "pyroscope", "logger">>
Components == Range(ComponentOrder)
Auxiliary == {"exporter", "tracing", "sentry", "pyroscope"}
CallbackOf(c) ==
    CASE c = "exporter"  -> ObsCallbacks[1]
      [] c = "tracing"   -> ObsCallbacks[2]
      [] c = "sentry"    -> ObsCallbacks[3]
      [] c = "pyroscope" -> ObsCallbacks[4]

Went(ok) == IF ok THEN "ok" ELSE "failed"

\* The current Setup: every component is reached unless the resource failed;
\* a component is skipped when the configuration leaves it out, and fails
\* when it is enabled without its endpoint or its initialisation fails.
InitCurrent(cfg, out) ==
    [c \in Components |->
        CASE c = "resource" -> Went(out.resource)
          [] ~out.resource -> "unreached"
          [] c = "exporter" ->
               IF ~cfg.TracingURL THEN "skipped" ELSE Went(out.exporter)
          [] c = "tracing" ->
               IF ~cfg.TracingEnabled THEN "skipped"
               ELSE Went(cfg.TracingURL /\ out.tracing)
          [] c = "sentry" ->
               IF ~cfg.SentryEnabled THEN "skipped"
               ELSE Went(cfg.SentryDsn /\ out.sentry)
          [] c = "pyroscope" ->
               IF ~cfg.PyroscopeEnabled THEN "skipped"
               ELSE Went(cfg.PyroscopeURL /\ out.pyroscope)
          [] OTHER -> Went(out.logger)]

\* The earlier Setup, one component taken alone: the exporter is always
\* made, tracing and Sentry when enabled; there is no Pyroscope.
TriedEarlier(c, cfg, out) ==
    CASE c = "resource"  -> Went(out.resource)
      [] c = "exporter"  -> Went(out.exporter)
      [] c = "tracing"   -> IF cfg.TracingEnabled THEN Went(out.tracing) ELSE "skipped"
      [] c = "sentry"    -> IF cfg.SentryEnabled THEN Went(out.sentry) ELSE "skipped"
      [] c = "pyroscope" -> "skipped"
      [] OTHER           -> Went(out.logger)

\* The earlier Setup: it returns at the first failure, so what comes after a
\* failed component is not reached.
InitEarlier(cfg, out) ==
    [c \in Components |->
        IF \E i, j \in DOMAIN ComponentOrder :
               /\ i < j /\ ComponentOrder[j] = c
               /\ TriedEarlier(ComponentOrder[i], cfg, out) = "failed"
          THEN "unreached" ELSE TriedEarlier(c, cfg, out)]

\* The callbacks of the components that went well, in Setup's order.
RegisteredBy(init) ==
    LET aux == SelectSeq(ComponentOrder, LAMBDA c : c \in Auxiliary /\ init[c] = "ok")
    IN  [i \in 1..Len(aux) |-> CallbackOf(aux[i])]

\* The current observability.Setup called by a main, what went how kept.
ObsSetupCurrent(cfg, out) ==
    /\ obsVariant = "none"
    /\ ObsSetupOf(cfg, out)
    /\ obsVariant' = "current"
    /\ obsInit' = InitCurrent(cfg, out)
    /\ UNCHANGED mainPc

\* The earlier observability.Setup: (nil, err) as soon as a component fails,
\* the manager with what was registered so far being dropped; the manager
\* when all went well.
ObsSetupEarlier(cfg, out) ==
    /\ obsVariant = "none"
    /\ \A r \in Registries : ~mgr[r] /\ handle[r] = "none"
    /\ obsVariant' = "earlier"
    /\ obsInit' = InitEarlier(cfg, out)
    /\ handle' = [handle EXCEPT !["observability"] = "absent"]
    /\ enabledCfg' = [enabledCfg EXCEPT !["observability"] = TRUE]
    /\ acquire' = [acquire EXCEPT !["observability"] =
                     IF "failed" \in Range(obsInit') THEN "failed" ELSE "ok"]
    /\ IF "failed" \in Range(obsInit')
         THEN /\ setupErr' = [setupErr EXCEPT !["observability"] = TRUE]
              /\ UNCHANGED <<mgr, cleanupFuncs>>
         ELSE /\ setupErr' = [setupErr EXCEPT !["observability"] = FALSE]
              /\ mgr' = [mgr EXCEPT !["observability"] = TRUE]
              /\ cleanupFuncs' = [cleanupFuncs EXCEPT !["observability"] =
                                     RegisteredBy(obsInit')]
    /\ UNCHANGED <<policy, runs, trace, failed, invoked, ret>>
    /\ UNCHANGED clientVars
    /\ UNCHANGED mainPc

\* main after Setup returned an error: shutdownManager.Cleanup(ctx), then
\* os.Exit(1).  Cleanup on a nil *ShutdownManager reads s.cleanupFuncs
\* through the nil pointer and panics.
MainSetupFailed(fails) ==
    /\ mainPc = "start"
    /\ obsVariant # "none"
    /\ setupErr["observability"]
    /\ IF mgr["observability"]
         THEN /\ Cleanup("observability", fails)
              /\ mainPc' = "exit1"
         ELSE /\ mainPc' = "panicked"
              /\ UNCHANGED <<clientVars, registryVars>>
    /\ UNCHANGED <<obsVariant, obsInit>>

\* main after Setup succeeded: Cleanup is deferred and the server started.
MainServe ==
    /\ mainPc = "start"
    /\ obsVariant # "none"
    /\ ~setupErr["observability"]
    /\ mainPc' = "serving"
    /\ UNCHANGED <<obsVariant, obsInit>>
    /\ UNCHANGED <<clientVars, registryVars>>

\* main returns after the signal: the deferred Cleanup runs.
MainReturn(fails) ==
    /\ mainPc = "serving"
    /\ Cleanup("observability", fails)
    /\ mainPc' = "returned"
    /\ UNCHANGED <<obsVariant, obsInit>>

\* C26: once observability.Setup has returned with the OTel resource built, a
\* failed auxiliary component (OTLP log exporter, tracing, Sentry, Pyroscope)
\* has not aborted it: every component was reached, the manager is returned,
\* only a failed logger makes an error, and the registry holds exactly the
\* cleanups of the components that initialised, in initialisation order.
AuxiliaryFailureDegrades ==
    (obsVariant # "none" /\ mainPc = "start" /\ obsInit["resource"] = "ok") =>
        /\ \A c \in Components : obsInit[c] # "unreached"
        /\ mgr["observability"]
        /\ setupErr["observability"] <=> obsInit["logger"] = "failed"
        /\ cleanupFuncs["observability"] = RegisteredBy(obsInit)

\* The same of the current Setup alone.
CurrentSetupDegrades == obsVariant = "current" => AuxiliaryFailureDegrades

\* C28: observability.Setup returns a manager on every path, the paths that
\* return an error included, so the Cleanup that main calls on it after a
\* failed Setup never goes through a nil manager.
SetupAlwaysReturnsManager ==
    /\ obsVariant # "none" => mgr["observability"]
    /\ mainPc # "panicked"

\* ------------------------------------------------------------------ producer application
\* The producer's main goroutine has ended: NewApp failed, Run returned the
\* server's error, Run returned from shutdown, or the process panicked.
Ended == {"aborted", "serverErr", "done", "crashed"}

\* publisher = service.NewNATSClientPublisher(natsClient): a non-nil
\* MessagePublisher, also around the nil *Client of a degraded queue.Setup.
WrappedClient(h) == IF h = "live" THEN "client" ELSE "nilClient"

\* PublishMessage / PublishStartupMessage down to the transport: "error" for
\* an error result, "ok", or "panic" (Client.Publish on a nil *Client
\* dereferences c.mu).
PublishVia(pub, n, s) ==
    CASE pub = "nil"       -> {"error"}
      [] pub = "nilClient" -> {"panic"}
      [] OTHER ->
           IF NotConnected(n, s) THEN {"error"}
           ELSE {IF r = "ok" THEN "ok" ELSE "error" : r \in NatsSendResults(s)}

\* NewApp, observability.Setup: its error aborts startup.
AppObsSetup ==
    /\ appPc = "init"
    /\ ObsSetup
    /\ obsMgr' = (mgr'["observability"] /\ ~setupErr'["observability"])
    /\ appPc' = IF setupErr'["observability"] THEN "aborted" ELSE "obsReady"
    /\ UNCHANGED <<publisher, queueMgr, queueEnabled, server, signalled, startupPub,
                   pubOutcomes, requests>>

\* NewApp, the queue: queue.Setup is called when the producer's configuration
\* enables the queue and the queue configuration loads; unless it returns an
\* error its client is wrapped into the publisher and its manager is kept.
AppQueueSetup(en, cfgOk, natsEn, o, ok) ==
    /\ appPc = "obsReady"
    /\ queueEnabled' = en
    /\ IF en /\ cfgOk
         THEN /\ QueueSetup(natsEn, "degradable", o, ok)
              /\ publisher' = IF setupErr'["queue"] THEN "nil"
                               ELSE WrappedClient(handle'["queue"])
              /\ queueMgr' = ~setupErr'["queue"]
         ELSE /\ publisher' = "nil"
              /\ queueMgr' = FALSE
              /\ UNCHANGED <<clientVars, registryVars>>
    /\ appPc' = "built"
    /\ UNCHANGED <<obsMgr, server, signalled, startupPub, pubOutcomes, requests>>

\* Run up to its select: the startup publisher is started when the queue is
\* enabled (a.producerService is never nil), then the HTTP server, which
\* either serves or fails to listen.
RunStart(up) ==
    /\ appPc = "built"
    /\ startupPub' = IF queueEnabled THEN "sleeping" ELSE "none"
    /\ server' = IF up THEN "serving" ELSE "failed"
    /\ appPc' = "select"
    /\ UNCHANGED <<publisher, queueMgr, obsMgr, queueEnabled, signalled, pubOutcomes,
                   requests>>
    /\ UNCHANGED <<clientVars, registryVars>>

\* A termination signal cancels the context main made.
Signal ==
    /\ signalled = "no"
    /\ appPc \notin Ended
    /\ signalled' = server
    /\ UNCHANGED <<appPc, publisher, queueMgr, obsMgr, queueEnabled, server, startupPub,
                   pubOutcomes, requests>>
    /\ UNCHANGED <<clientVars, registryVars>>

\* Run's select: the cancelled context leads to shutdown, a server error is
\* returned at once.
RunSelect ==
    /\ appPc = "select"
    /\ \/ signalled # "no" /\ appPc' = "shutdown"
       \/ server = "failed" /\ appPc' = "serverErr"
    /\ UNCHANGED <<publisher, queueMgr, obsMgr, queueEnabled, server, signalled,
                   startupPub, pubOutcomes, requests>>
    /\ UNCHANGED <<clientVars, registryVars>>

\* shutdown: a.server.Shutdown(shutdownCtx).
ShutdownServer ==
    /\ appPc = "shutdown"
    /\ server' = IF server = "serving" THEN "closed" ELSE server
    /\ appPc' = "cleanQueue"
    /\ UNCHANGED <<publisher, queueMgr, obsMgr, queueEnabled, signalled, startupPub,
                   pubOutcomes, requests>>
    /\ UNCHANGED <<clientVars, registryVars>>

\* shutdown: if a.queueMgr != nil { a.queueMgr.Cleanup(shutdownCtx) }.
ShutdownQueue ==
    /\ appPc = "cleanQueue"
    /\ IF queueMgr THEN Cleanup("queue", {}) ELSE UNCHANGED <<clientVars, registryVars>>
    /\ appPc' = "cleanObs"
    /\ UNCHANGED <<publisher, queueMgr, obsMgr, queueEnabled, server, signalled,
                   startupPub, pubOutcomes, requests>>

\* shutdown: if a.observabilityMgr != nil { a.observabilityMgr.Cleanup(shutdownCtx) },
\* then Run returns nil.
ShutdownObs ==
    /\ appPc = "cleanObs"
    /\ IF obsMgr
         THEN \E fails \in SUBSET Range(cleanupFuncs["observability"]) :
                 Cleanup("observability", fails)
         ELSE UNCHANGED <<clientVars, registryVars>>
    /\ appPc' = "done"
    /\ UNCHANGED <<publisher, queueMgr, obsMgr, queueEnabled, server, signalled,
                   startupPub, pubOutcomes, requests>>

\* The goroutine Run started: after its sleep, PublishStartupMessage.  A
\* panic in this goroutine ends the process.
StartupPublish ==
    /\ startupPub = "sleeping"
    /\ appPc \notin Ended
    /\ startupPub' = "done"
    /\ \E out \in PublishVia(publisher, nc, status) :
         /\ pubOutcomes' = pubOutcomes \cup {<<"startup", out>>}
         /\ appPc' = IF out = "panic" THEN "crashed" ELSE appPc
    /\ UNCHANGED <<publisher, queueMgr, obsMgr, queueEnabled, server, signalled, requests>>
    /\ UNCHANGED <<clientVars, registryVars>>

\* POST /message/create: Handler.CreateMessage calls PublishMessage.  A panic
\* in a handler is caught by net/http, which drops the connection.
RequestPublish ==
    /\ server = "serving"
    /\ appPc \notin Ended
    /\ requests < MaxRequests
    /\ requests' = requests + 1
    /\ \E out \in PublishVia(publisher, nc, status) :
         pubOutcomes' = pubOutcomes \cup {<<"request", out>>}
    /\ UNCHANGED <<appPc, publisher, queueMgr, obsMgr, queueEnabled, server, signalled,
                   startupPub>>
    /\ UNCHANGED <<clientVars, registryVars>>

\* ------------------------------------------------------------------ shutdown deadlines
ShutdownTimeout == 30
QueueCleanupTimeout == 10
DbCleanupTimeout == 10
ObsCleanupTimeout == 15

\* The timeout each Cleanup puts on the context it hands to its callbacks.
CleanupTimeout(r) ==
    CASE r = "queue" -> QueueCleanupTimeout
      [] r = "db"    -> DbCleanupTimeout
      [] OTHER       -> ObsCleanupTimeout

\* (variant: the timeout is put on a fresh context instead of on ctx)
WithTimeoutDetached(parent, t, d) == t + d

\* context.WithTimeout(ctx, d) called at time t: the deadline of the new
\* context is t + d unless ctx ends earlier (parent: the deadline of ctx,
\* -1 when it has none).
WithTimeout(parent, t, d) == IF parent = -1 \/ t + d < parent THEN t + d ELSE parent

\* Callbacks that use the context they are given: loggerProvider.Shutdown and
\* the tracer provider's Shutdown.  The others discard it.
HonoursCtx == {ObsCallbacks[1], ObsCallbacks[2]}

\* Callbacks that may never complete on their own.  Client.Close is bounded by
\* the drain timeout and sentry's flush by its flush duration;
\* pgxpool's Close waits for every acquired connection to be released.
CanHang == {PgClose, ObsCallbacks[1], ObsCallbacks[2], ObsCallbacks[4]}

\* Durations the steps of the shutdown are let to take, up to the point where
\* every deadline has passed.
Horizon == ShutdownTimeout + ObsCleanupTimeout
Durations == {d \in 0..Horizon : d % Quantum = 0}

\* shutdown with the clock: shutdownCtx is made with its timeout, and
\* server.Shutdown(shutdownCtx) returns when that context ends at the latest.
TimedShutdownServer(d) ==
    /\ ShutdownServer
    /\ shutdownDeadline' = WithTimeout(-1, now, ShutdownTimeout)
    /\ now + d <= shutdownDeadline'
    /\ now' = now + d
    /\ UNCHANGED <<closeStart, closeTook, drainDeadline>>
    /\ UNCHANGED <<cleaning, cleanupStart, cleanupParent, cleanupDeadline, hangs>>
    /\ UNCHANGED producerVars

\* Cleanup(ctx), its first statements: cleanupCtx is derived from ctx.  h: the
\* callbacks that will never complete on their own this time.
TimedCleanupBegin(r, parent, h) ==
    /\ cleaning = "none"
    /\ mgr[r]
    /\ runs[r] = 0
    /\ cleaning' = r
    /\ hangs' = h
    /\ cleanupStart' = [cleanupStart EXCEPT ![r] = now]
    /\ cleanupParent' = [cleanupParent EXCEPT ![r] = parent]
    /\ cleanupDeadline' = [cleanupDeadline EXCEPT ![r] =
                             WithTimeout(parent, now, CleanupTimeout(r))]
    /\ UNCHANGED <<shutdownDeadline, clientVars, registryVars, appVars, timeVars>>
    /\ UNCHANGED producerVars

\* Cleanup, its loop and return.  The loop calls each callback and waits for
\* it: a callback that never completes on its own returns when cleanupCtx
\* ends if it uses the context (and then reports the context's error), and
\* never returns if it discards the context.  d: time the callbacks that do
\* complete take altogether.
TimedCleanupEnd(r, d, fails) ==
    /\ cleaning = r
    /\ hangs \subseteq HonoursCtx
    /\ hangs \subseteq fails
    /\ now + d <= Horizon
    /\ now' = IF hangs # {} /\ cleanupDeadline[r] > now + d
                THEN cleanupDeadline[r] ELSE now + d
    /\ Cleanup(r, fails)
    /\ cleaning' = "none"
    /\ hangs' = {}
    /\ UNCHANGED <<closeStart, closeTook, drainDeadline>>
    /\ UNCHANGED <<shutdownDeadline, cleanupStart, cleanupParent, cleanupDeadline>>
    /\ UNCHANGED producerVars

\* Time passes while Cleanup waits for a callback that discards its context
\* and does not complete.
StuckTick ==
    /\ cleaning # "none"
    /\ ~(hangs \subseteq HonoursCtx)
    /\ now + Quantum <= Horizon
    /\ now' = now + Quantum
    /\ UNCHANGED <<closeStart, closeTook, drainDeadline>>
    /\ UNCHANGED <<clientVars, registryVars, appVars, deadlineVars, producerVars>>

\* shutdown, the queue: Cleanup is called with shutdownCtx if there is a manager.
TimedQueueBegin ==
    /\ appPc = "cleanQueue"
    /\ queueMgr
    /\ \E h \in SUBSET (Range(cleanupFuncs["queue"]) \cap CanHang) :
         TimedCleanupBegin("queue", shutdownDeadline, h)

TimedQueueEnd(d) ==
    /\ appPc = "cleanQueue"
    /\ IF queueMgr
         THEN TimedCleanupEnd("queue", d, {})
         ELSE /\ d = 0
              /\ UNCHANGED <<clientVars, registryVars, timeVars, deadlineVars, producerVars>>
    /\ appPc' = "cleanObs"
    /\ UNCHANGED <<publisher, queueMgr, obsMgr, queueEnabled, server, signalled,
                   startupPub, pubOutcomes, requests>>

\* shutdown, observability, and the return of Run.
TimedObsBegin ==
    /\ appPc = "cleanObs"
    /\ obsMgr
    /\ \E h \in SUBSET (Range(cleanupFuncs["observability"]) \cap CanHang) :
         TimedCleanupBegin("observability", shutdownDeadline, h)

TimedObsEnd(d) ==
    /\ appPc = "cleanObs"
    /\ IF obsMgr
         THEN TimedCleanupEnd("observability", d, hangs)
         ELSE /\ d = 0
              /\ UNCHANGED <<clientVars, registryVars, timeVars, deadlineVars, producerVars>>
    /\ appPc' = "done"
    /\ UNCHANGED <<publisher, queueMgr, obsMgr, queueEnabled, server, signalled,
                   startupPub, pubOutcomes, requests>>

\* db.ShutdownManager.Cleanup, called by a service that set the database up
\* (not the producer), with a context of its own.
TimedDbBegin(parent) ==
    /\ appPc = "init"
    /\ \E h \in SUBSET (Range(cleanupFuncs["db"]) \cap CanHang) :
         TimedCleanupBegin("db", parent, h)

TimedDbEnd(d) ==
    /\ TimedCleanupEnd("db", d, {})
    /\ UNCHANGED appVars

\* ------------------------------------------------------------------ options
\* Options a caller may hand to NewClient: each field unset or set.
AnyOptionInputs ==
    [ReconnectWait : {0, 1, 2}, MaxReconnects : {-1, 0, 1, 60}, DrainTimeout : {0, 5, 10}]

\* NewClient called directly, the options kept for comparison.
NewClientWith(o, ok) ==
    /\ NewClient(o, ok)
    /\ given' = o
    /\ UNCHANGED <<registryVars, serviceVars, serverVars, telemetryVars>>

\* queue.Setup with NATS enabled, called with a configuration.
QueueSetupWith(cfg, ok) ==
    /\ newClientRet = "none"
    /\ QueueSetup(TRUE, "degradable", NatsOptions(cfg), ok)
    /\ given' = NatsOptions(cfg)
    /\ UNCHANGED <<serviceVars, serverVars, telemetryVars>>

\* ------------------------------------------------------------------ ProducerService
Subjects == {"test.concurrent", "messages"}
Messages == {"concurrent message", ""}

\* json.Marshal(MessageData{Message: message}): the object with its one field.
\* A struct with one string field always marshals.
Marshal(message) ==
    [err |-> FALSE, data |-> <<"{\"message\":\"", message, "\"}">>]

Payloads == {Marshal(m).data : m \in Messages}
NoArgs == [message |-> "", subject |-> "none"]
NoData == <<>>

\* What MessagePublisher.Publish returns: nil from a publisher that works
\* (the mock set up with Return(nil)), an error from one that fails.
MockPublish(m) == IF m = "working" THEN {"nil"} ELSE {"error"}

\* (variant: the service never finds its publisher)
PublisherMissingAlways(m) == TRUE

\* PublishMessage's first test: s.publisher == nil.
PublisherMissing(m) == m = "nil"

\* Total number of PublishMessage calls made.
TotalCalls == pmCalls["test.concurrent"] + pmCalls["messages"]

\* NewProducerService(publisher, logger).
NewProducerService(m) ==
    /\ mock = "unset"
    /\ mock' = m
    /\ UNCHANGED <<pmPc, pmArgs, pmData, pmRet, pmCalls, received, serverVars>>
    /\ UNCHANGED <<given, telemetryVars>>

\* PublishMessage up to the publisher call: the nil test, then json.Marshal.
PublishMessageBegin(t, message, subject) ==
    /\ mock # "unset"
    /\ pmPc[t] = "idle"
    /\ TotalCalls < MaxPublishes
    /\ pmCalls' = [pmCalls EXCEPT ![subject] = @ + 1]
    /\ pmArgs' = [pmArgs EXCEPT ![t] = [message |-> message, subject |-> subject]]
    /\ IF PublisherMissing(mock)
         THEN /\ pmRet' = [pmRet EXCEPT ![t] = "publisher not initialized"]
              /\ pmPc' = [pmPc EXCEPT ![t] = "ret"]
              /\ UNCHANGED pmData
         ELSE IF Marshal(message).err
         THEN /\ pmRet' = [pmRet EXCEPT ![t] = "failed to marshal message"]
              /\ pmPc' = [pmPc EXCEPT ![t] = "ret"]
              /\ UNCHANGED pmData
         ELSE /\ pmData' = [pmData EXCEPT ![t] = Marshal(message).data]
              /\ pmPc' = [pmPc EXCEPT ![t] = "publish"]
              /\ UNCHANGED pmRet
    /\ UNCHANGED <<mock, received, serverVars>>
    /\ UNCHANGED <<given, telemetryVars>>

\* PublishMessage: err = s.publisher.Publish(subject, data), and the return
\* value made of it.
PublishMessagePublish(t) ==
    /\ pmPc[t] = "publish"
    /\ received' = [received EXCEPT ![<<pmArgs[t].subject, pmData[t]>>] = @ + 1]
    /\ \E e \in MockPublish(mock) :
         pmRet' = [pmRet EXCEPT ![t] =
                     IF e = "nil" THEN "nil" ELSE "failed to publish message"]
    /\ pmPc' = [pmPc EXCEPT ![t] = "ret"]
    /\ UNCHANGED <<pmArgs, pmData, pmCalls, mock, serverVars>>
    /\ UNCHANGED <<given, telemetryVars>>

\* The caller takes the error value and may call again.
PublishMessageReturn(t) ==
    /\ pmPc[t] = "ret"
    /\ pmPc' = [pmPc EXCEPT ![t] = "idle"]
    /\ pmArgs' = [pmArgs EXCEPT ![t] = NoArgs]
    /\ pmData' = [pmData EXCEPT ![t] = NoData]
    /\ pmRet' = [pmRet EXCEPT ![t] = "none"]
    /\ UNCHANGED <<pmCalls, mock, received, serverVars>>
    /\ UNCHANGED <<given, telemetryVars>>

\* ------------------------------------------------------------------ HTTP server
\* The value of s.server that Shutdown reads.  Start assigns the field on its
\* own goroutine and nothing orders that write with Shutdown's read, so once
\* the field is set the read yields either value.
ReadField(f) == IF f = "nil" THEN {"nil"} ELSE {"nil", "set"}

\* (variant: Shutdown without its nil test)
ShutdownSkipsNever(f) == FALSE

\* Shutdown's test: s.server == nil, return nil.
ShutdownSkips(f) == f = "nil"

\* The process runs: main has not returned and no goroutine has panicked.
Alive == ~exited /\ appPc # "crashed"

\* Run up to its select, the goroutines only started: the startup publisher
\* when the queue is enabled, and the one that calls a.server.Start().
RunGo ==
    /\ appPc = "built"
    /\ srvGo = "none"
    /\ startupPub' = IF queueEnabled THEN "sleeping" ELSE "none"
    /\ srvGo' = "spawned"
    /\ appPc' = "select"
    /\ UNCHANGED <<publisher, queueMgr, obsMgr, queueEnabled, server, signalled,
                   pubOutcomes, requests>>
    /\ UNCHANGED <<srvField, inShutdown, listening, active, exited, startRet, shutdownRet>>
    /\ UNCHANGED <<clientVars, registryVars, serviceVars>>
    /\ UNCHANGED <<given, telemetryVars>>

\* Start: the mux is built and s.server = &http.Server{...}.
ServerStartCreate ==
    /\ srvGo = "spawned"
    /\ Alive
    /\ srvField' = "set"
    /\ inShutdown' = FALSE
    /\ srvGo' = "created"
    /\ UNCHANGED <<listening, active, exited, startRet, shutdownRet>>
    /\ UNCHANGED <<clientVars, registryVars, appVars, serviceVars>>
    /\ UNCHANGED <<given, telemetryVars>>

\* Start: return s.server.ListenAndServe().  A server already shut down
\* returns http.ErrServerClosed at once; otherwise it listens, or fails to
\* and the goroutine sends the error to Run.
ServerStartListen(ok) ==
    /\ srvGo = "created"
    /\ Alive
    /\ IF inShutdown
         THEN /\ srvGo' = "returned"
              /\ startRet' = "ErrServerClosed"
              /\ server' = "closed"
              /\ UNCHANGED listening
         ELSE IF ok
         THEN /\ srvGo' = "serving"
              /\ listening' = TRUE
              /\ server' = "serving"
              /\ UNCHANGED startRet
         ELSE /\ srvGo' = "returned"
              /\ startRet' = "listenError"
              /\ server' = "failed"
              /\ UNCHANGED listening
    /\ UNCHANGED <<srvField, inShutdown, active, exited, shutdownRet>>
    /\ UNCHANGED <<appPc, publisher, queueMgr, obsMgr, queueEnabled, signalled,
                   startupPub, pubOutcomes, requests>>
    /\ UNCHANGED <<clientVars, registryVars, serviceVars>>
    /\ UNCHANGED <<given, telemetryVars>>

\* A client connects and is being served; a served request ends.
ServerAccept ==
    /\ listening
    /\ Alive
    /\ active < MaxConns
    /\ active' = active + 1
    /\ UNCHANGED <<srvGo, srvField, inShutdown, listening, exited, startRet, shutdownRet>>
    /\ UNCHANGED <<clientVars, registryVars, appVars, serviceVars>>
    /\ UNCHANGED <<given, telemetryVars>>

ServerServed ==
    /\ active > 0
    /\ Alive
    /\ active' = active - 1
    /\ UNCHANGED <<srvGo, srvField, inShutdown, listening, exited, startRet, shutdownRet>>
    /\ UNCHANGED <<clientVars, registryVars, appVars, serviceVars>>
    /\ UNCHANGED <<given, telemetryVars>>

\* Server.Shutdown(ctx), called by shutdown, or directly on a Server that
\* was never started.  Without an http.Server it returns nil; otherwise
\* http.Server.Shutdown stops the listener, which makes ListenAndServe return
\* ErrServerClosed, and goes on to wait for the connections being served.
ServerShutdown ==
    /\ appPc \in {"shutdown", "init"}
    /\ appPc = "init" => shutdownRet = "none"
    /\ \E f \in ReadField(srvField) :
         IF ShutdownSkips(f)
           THEN /\ shutdownRet' = "nil"
                /\ appPc' = IF appPc = "init" THEN "init" ELSE "cleanQueue"
                /\ UNCHANGED <<srvGo, inShutdown, listening, startRet, server>>
           ELSE IF srvField = "nil"
           THEN /\ shutdownRet' = "panic"
                /\ appPc' = "crashed"
                /\ UNCHANGED <<srvGo, inShutdown, listening, startRet, server>>
           ELSE /\ inShutdown' = TRUE
                /\ listening' = FALSE
                /\ srvGo' = IF srvGo = "serving" THEN "returned" ELSE srvGo
                /\ startRet' = IF srvGo = "serving" THEN "ErrServerClosed" ELSE startRet
                /\ server' = IF srvGo = "serving" THEN "closed" ELSE server
                /\ appPc' = "draining"
                /\ UNCHANGED shutdownRet
    /\ UNCHANGED <<srvField, active, exited>>
    /\ UNCHANGED <<publisher, queueMgr, obsMgr, queueEnabled, signalled, startupPub,
                   pubOutcomes, requests>>
    /\ UNCHANGED <<clientVars, registryVars, serviceVars>>
    /\ UNCHANGED <<given, telemetryVars>>

\* (variant: shutdown gives up when the server could not be shut down)
AfterServerShutdownAbort(err) == IF err = "nil" THEN "cleanQueue" ELSE "done"

\* Where shutdown goes after a.server.Shutdown returned err: the error is
\* logged and the queue is next.
AfterServerShutdown(err) == "cleanQueue"

\* http.Server.Shutdown, waiting: nil once no connection is being served,
\* the context's error when ctx ends first.  shutdown logs the error and
\* goes on.
ServerShutdownWait(expired) ==
    /\ appPc = "draining"
    /\ IF active = 0 THEN shutdownRet' = "nil"
       ELSE expired /\ shutdownRet' = "deadline"
    /\ appPc' = AfterServerShutdown(shutdownRet')
    /\ UNCHANGED <<srvGo, srvField, inShutdown, listening, active, exited, startRet>>
    /\ UNCHANGED <<publisher, queueMgr, obsMgr, queueEnabled, server, signalled,
                   startupPub, pubOutcomes, requests>>
    /\ UNCHANGED <<clientVars, registryVars, serviceVars>>
    /\ UNCHANGED <<given, telemetryVars>>

\* Run has returned, or the process has panicked: the process ends with all
\* it holds.
ServerExit ==
    /\ appPc \in Ended
    /\ ~exited
    /\ exited' = TRUE
    /\ listening' = FALSE
    /\ active' = 0
    /\ UNCHANGED <<srvGo, srvField, inShutdown, startRet, shutdownRet>>
    /\ UNCHANGED <<clientVars, registryVars, appVars, serviceVars>>
    /\ UNCHANGED <<given, telemetryVars>>

\* ------------------------------------------------------------------ specifications
InitRegistry ==
    /\ cleanupFuncs = [r \in Registries |-> <<>>]
    /\ mgr = [r \in Registries |-> FALSE]
    /\ handle = [r \in Registries |-> "none"]
    /\ setupErr = [r \in Registries |-> FALSE]
    /\ enabledCfg = [r \in Registries |-> FALSE]
    /\ policy = [r \in Registries |-> "degradable"]
    /\ acquire = [r \in Registries |-> "none"]
    /\ runs = [r \in Registries |-> 0]
    /\ trace = [r \in Registries |-> <<>>]
    /\ failed = [r \in Registries |-> {}]
    /\ invoked = [r \in Registries |-> [c \in Callbacks |-> 0]]
    /\ ret = [r \in Registries |-> NilErr]

InitTime ==
    /\ now = 0
    /\ closeStart = -1
    /\ closeTook = -1
    /\ drainDeadline = -1

InitApp ==
    /\ appPc = "init"
    /\ publisher = "nil"
    /\ queueMgr = FALSE
    /\ obsMgr = FALSE
    /\ queueEnabled = FALSE
    /\ server = "none"
    /\ signalled = "no"
    /\ startupPub = "none"
    /\ pubOutcomes = {}
    /\ requests = 0

InitDeadlines ==
    /\ shutdownDeadline = -1
    /\ cleaning = "none"
    /\ cleanupStart = [r \in Registries |-> -1]
    /\ cleanupParent = [r \in Registries |-> -1]
    /\ cleanupDeadline = [r \in Registries |-> -1]
    /\ hangs = {}

\* The ProducerService before any call; the publisher it was built around is
\* fixed when a run of the service begins.
InitService ==
    /\ pmPc = [t \in Callers |-> "idle"]
    /\ pmArgs = [t \in Callers |-> NoArgs]
    /\ pmData = [t \in Callers |-> NoData]
    /\ pmRet = [t \in Callers |-> "none"]
    /\ pmCalls = [s \in Subjects |-> 0]
    /\ mock = "unset"
    /\ received = [c \in Subjects \X Payloads |-> 0]

\* Before observability.Setup is called.
InitTelemetry ==
    /\ obsVariant = "none"
    /\ obsInit = [c \in Components |-> "unreached"]
    /\ mainPc = "start"

\* The Server NewServer returns: no http.Server yet.
InitServer ==
    /\ srvGo = "none"
    /\ srvField = "nil"
    /\ inShutdown = FALSE
    /\ listening = FALSE
    /\ active = 0
    /\ exited = FALSE
    /\ startRet = "none"
    /\ shutdownRet = "none"

Init ==
    /\ InitClient /\ InitRegistry /\ InitTime /\ InitApp /\ InitDeadlines
    /\ InitService /\ InitServer
    /\ given = ZeroOptions
    /\ InitTelemetry

\* The Client under concurrent callers and transport events.
Next ==
    \/ (\E o \in OptionInputs, ok \in BOOLEAN : NewClient(o, ok))
          /\ UNCHANGED <<registryVars, timeVars, appVars, deadlineVars, producerVars>>
    \/ (\E t \in Callers, m \in {"Publish", "Subscribe"} : Call(t, m))
          /\ UNCHANGED <<registryVars, timeVars, appVars, deadlineVars, producerVars>>
    \/ (\E t \in Callers : Forward(t)) /\ UNCHANGED <<registryVars, timeVars, appVars, deadlineVars, producerVars>>
    \/ (\E t \in Callers : CloseBegin(t)) /\ UNCHANGED <<registryVars, timeVars, appVars, deadlineVars, producerVars>>
    \/ (\E t \in Callers : CloseDrain(t)) /\ UNCHANGED <<registryVars, timeVars, appVars, deadlineVars, producerVars>>
    \/ (\E t \in Callers : CloseForce(t)) /\ UNCHANGED <<registryVars, timeVars, appVars, deadlineVars, producerVars>>
    \/ (\E t \in Callers : Return(t)) /\ UNCHANGED <<registryVars, timeVars, appVars, deadlineVars, producerVars>>
    \/ Disconnected /\ UNCHANGED <<registryVars, timeVars, appVars, deadlineVars, producerVars>>
    \/ Reconnected /\ UNCHANGED <<registryVars, timeVars, appVars, deadlineVars, producerVars>>
    \/ ReconnectFailed /\ UNCHANGED <<registryVars, timeVars, appVars, deadlineVars, producerVars>>
    \/ ConnClosed /\ UNCHANGED <<registryVars, timeVars, appVars, deadlineVars, producerVars>>

Spec == Init /\ [][Next]_vars

\* The registries: the Setup functions, Cleanup, and the transport behind the
\* queue client.
RegistryNext ==
    \/ (\E en \in BOOLEAN, o \in QueueOptionInputs, ok \in BOOLEAN :
            QueueSetup(en, "degradable", o, ok))
          /\ UNCHANGED <<timeVars, appVars, deadlineVars, producerVars>>
    \/ (\E en \in BOOLEAN, ok \in BOOLEAN : DbSetup(en, "degradable", ok))
          /\ UNCHANGED <<timeVars, appVars, deadlineVars, producerVars>>
    \/ ObsSetup /\ UNCHANGED <<timeVars, appVars, deadlineVars, producerVars>>
    \/ (\E r \in Registries :
          \E fails \in SUBSET (Range(cleanupFuncs[r]) \ AlwaysNil) : Cleanup(r, fails))
          /\ UNCHANGED <<timeVars, appVars, deadlineVars, producerVars>>
    \/ Disconnected /\ UNCHANGED <<registryVars, timeVars, appVars, deadlineVars, producerVars>>
    \/ ConnClosed /\ UNCHANGED <<registryVars, timeVars, appVars, deadlineVars, producerVars>>

RegistrySpec == Init /\ [][RegistryNext]_vars

\* The Setup functions alone, under every policy.
SetupNext ==
    \/ (\E en \in BOOLEAN, m \in Policies, o \in QueueOptionInputs, ok \in BOOLEAN :
            QueueSetup(en, m, o, ok))
          /\ UNCHANGED <<timeVars, appVars, deadlineVars, producerVars>>
    \/ (\E en \in BOOLEAN, m \in Policies, ok \in BOOLEAN : DbSetup(en, m, ok))
          /\ UNCHANGED <<timeVars, appVars, deadlineVars, producerVars>>
    \/ ObsSetup /\ UNCHANGED <<timeVars, appVars, deadlineVars, producerVars>>

SetupSpec == Init /\ [][SetupNext]_vars

\* The producer application from NewApp to the end of Run.
AppNext ==
    \/ AppObsSetup /\ UNCHANGED <<timeVars, deadlineVars, producerVars>>
    \/ (\E en, cfgOk, natsEn, ok \in BOOLEAN, o \in QueueOptionInputs :
            AppQueueSetup(en, cfgOk, natsEn, o, ok)) /\ UNCHANGED <<timeVars, deadlineVars, producerVars>>
    \/ (\E up \in BOOLEAN : RunStart(up)) /\ UNCHANGED <<timeVars, deadlineVars, producerVars>>
    \/ Signal /\ UNCHANGED <<timeVars, deadlineVars, producerVars>>
    \/ RunSelect /\ UNCHANGED <<timeVars, deadlineVars, producerVars>>
    \/ ShutdownServer /\ UNCHANGED <<timeVars, deadlineVars, producerVars>>
    \/ ShutdownQueue /\ UNCHANGED <<timeVars, deadlineVars, producerVars>>
    \/ ShutdownObs /\ UNCHANGED <<timeVars, deadlineVars, producerVars>>
    \/ StartupPublish /\ UNCHANGED <<timeVars, deadlineVars, producerVars>>
    \/ RequestPublish /\ UNCHANGED <<timeVars, deadlineVars, producerVars>>
    \/ (appPc \notin Ended /\ Disconnected) /\ UNCHANGED <<registryVars, timeVars, appVars, deadlineVars, producerVars>>
    \/ (appPc \notin Ended /\ Reconnected) /\ UNCHANGED <<registryVars, timeVars, appVars, deadlineVars, producerVars>>
    \/ (appPc \notin Ended /\ ConnClosed) /\ UNCHANGED <<registryVars, timeVars, appVars, deadlineVars, producerVars>>

AppSpec == Init /\ [][AppNext]_vars

\* The producer's shutdown, and a database Cleanup, against the clock.
ShutdownNext ==
    \/ AppObsSetup /\ UNCHANGED <<timeVars, deadlineVars, producerVars>>
    \/ (\E en, cfgOk, natsEn, ok \in BOOLEAN, o \in QueueOptionInputs :
            AppQueueSetup(en, cfgOk, natsEn, o, ok)) /\ UNCHANGED <<timeVars, deadlineVars, producerVars>>
    \/ (appPc = "init" /\ \E en, ok \in BOOLEAN : DbSetup(en, "degradable", ok))
          /\ UNCHANGED <<timeVars, appVars, deadlineVars, producerVars>>
    \/ (\E up \in BOOLEAN : RunStart(up)) /\ UNCHANGED <<timeVars, deadlineVars, producerVars>>
    \/ Signal /\ UNCHANGED <<timeVars, deadlineVars, producerVars>>
    \/ RunSelect /\ UNCHANGED <<timeVars, deadlineVars, producerVars>>
    \/ (\E d \in Durations : TimedShutdownServer(d))
    \/ TimedQueueBegin
    \/ (\E d \in Durations : TimedQueueEnd(d))
    \/ TimedObsBegin
    \/ (\E d \in Durations : TimedObsEnd(d))
    \/ (\E parent \in {-1, ShutdownTimeout} : TimedDbBegin(parent))
    \/ (\E d \in Durations : TimedDbEnd(d))
    \/ StuckTick

ShutdownSpec == Init /\ [][ShutdownNext]_vars

\* The callers of one Client, IsConnected included, taking and releasing c.mu.
LockNext ==
    \/ (\E o \in LockOptionInputs, ok \in BOOLEAN : NewClient(o, ok))
          /\ UNCHANGED <<registryVars, timeVars, appVars, deadlineVars, producerVars>>
    \/ (\E t \in Callers, m \in {"Publish", "Subscribe"} : Call(t, m))
          /\ UNCHANGED <<registryVars, timeVars, appVars, deadlineVars, producerVars>>
    \/ (\E t \in Callers : Forward(t)) /\ UNCHANGED <<registryVars, timeVars, appVars, deadlineVars, producerVars>>
    \/ (\E t \in Callers : IsConnectedBegin(t)) /\ UNCHANGED <<registryVars, timeVars, appVars, deadlineVars, producerVars>>
    \/ (\E t \in Callers : IsConnectedEnd(t)) /\ UNCHANGED <<registryVars, timeVars, appVars, deadlineVars, producerVars>>
    \/ (\E t \in Callers : CloseBegin(t)) /\ UNCHANGED <<registryVars, timeVars, appVars, deadlineVars, producerVars>>
    \/ (\E t \in Callers : CloseDrain(t)) /\ UNCHANGED <<registryVars, timeVars, appVars, deadlineVars, producerVars>>
    \/ (\E t \in Callers : CloseForce(t)) /\ UNCHANGED <<registryVars, timeVars, appVars, deadlineVars, producerVars>>
    \/ (\E t \in Callers : Return(t)) /\ UNCHANGED <<registryVars, timeVars, appVars, deadlineVars, producerVars>>
    \/ Disconnected /\ UNCHANGED <<registryVars, timeVars, appVars, deadlineVars, producerVars>>
    \/ Reconnected /\ UNCHANGED <<registryVars, timeVars, appVars, deadlineVars, producerVars>>
    \/ ReconnectFailed /\ UNCHANGED <<registryVars, timeVars, appVars, deadlineVars, producerVars>>
    \/ ConnClosed /\ UNCHANGED <<registryVars, timeVars, appVars, deadlineVars, producerVars>>

LockSpec == Init /\ [][LockNext]_vars

\* Concurrent callers of one ProducerService.
ServiceNext ==
    \/ (\E m \in {"nil", "working", "failing"} : NewProducerService(m))
          /\ UNCHANGED <<clientVars, registryVars, timeVars, appVars, deadlineVars>>
    \/ (\E t \in Callers, message \in Messages, subject \in Subjects :
            PublishMessageBegin(t, message, subject))
          /\ UNCHANGED <<clientVars, registryVars, timeVars, appVars, deadlineVars>>
    \/ (\E t \in Callers : PublishMessagePublish(t))
          /\ UNCHANGED <<clientVars, registryVars, timeVars, appVars, deadlineVars>>
    \/ (\E t \in Callers : PublishMessageReturn(t))
          /\ UNCHANGED <<clientVars, registryVars, timeVars, appVars, deadlineVars>>

ServiceSpec == Init /\ [][ServiceNext]_vars

\* The producer's Server: the goroutine running Start against the goroutine
\* that waits for the signal and shuts down.
ServerNext ==
    \/ AppObsSetup /\ UNCHANGED <<timeVars, deadlineVars, producerVars>>
    \/ (\E en, cfgOk, natsEn, ok \in BOOLEAN, o \in QueueOptionInputs :
            AppQueueSetup(en, cfgOk, natsEn, o, ok))
          /\ UNCHANGED <<timeVars, deadlineVars, producerVars>>
    \/ RunGo /\ UNCHANGED <<timeVars, deadlineVars>>
    \/ ServerStartCreate /\ UNCHANGED <<timeVars, deadlineVars>>
    \/ (\E ok \in BOOLEAN : ServerStartListen(ok)) /\ UNCHANGED <<timeVars, deadlineVars>>
    \/ ServerAccept /\ UNCHANGED <<timeVars, deadlineVars>>
    \/ ServerServed /\ UNCHANGED <<timeVars, deadlineVars>>
    \/ Signal /\ UNCHANGED <<timeVars, deadlineVars, producerVars>>
    \/ RunSelect /\ UNCHANGED <<timeVars, deadlineVars, producerVars>>
    \/ ServerShutdown /\ UNCHANGED <<timeVars, deadlineVars>>
    \/ (\E expired \in BOOLEAN : ServerShutdownWait(expired)) /\ UNCHANGED <<timeVars, deadlineVars>>
    \/ ShutdownQueue /\ UNCHANGED <<timeVars, deadlineVars, producerVars>>
    \/ ShutdownObs /\ UNCHANGED <<timeVars, deadlineVars, producerVars>>
    \/ StartupPublish /\ UNCHANGED <<timeVars, deadlineVars, producerVars>>
    \/ ServerExit /\ UNCHANGED <<timeVars, deadlineVars>>

ServerSpec == Init /\ [][ServerNext]_vars

\* Clients made with every kind of options, directly and by queue.Setup, and
\* the transport behind them.
OptionsNext ==
    \/ (\E o \in AnyOptionInputs, ok \in BOOLEAN : NewClientWith(o, ok))
          /\ UNCHANGED <<timeVars, appVars, deadlineVars>>
    \/ (\E cfg \in QueueConfigs, ok \in BOOLEAN : QueueSetupWith(cfg, ok))
          /\ UNCHANGED <<timeVars, appVars, deadlineVars>>
    \/ Disconnected /\ UNCHANGED <<registryVars, timeVars, appVars, deadlineVars, producerVars>>
    \/ Reconnected /\ UNCHANGED <<registryVars, timeVars, appVars, deadlineVars, producerVars>>
    \/ ReconnectFailed /\ UNCHANGED <<registryVars, timeVars, appVars, deadlineVars, producerVars>>
    \/ ConnClosed /\ UNCHANGED <<registryVars, timeVars, appVars, deadlineVars, producerVars>>

OptionsSpec == Init /\ [][OptionsNext]_vars

\* observability.Setup, both of them, under the main of the hello service.
TelemetryNext ==
    \/ (\E cfg \in ObsConfigs, out \in ObsOutcomes : ObsSetupCurrent(cfg, out)) /\ UNCHANGED <<timeVars, appVars, deadlineVars, serviceVars, serverVars, given>>
    \/ (\E cfg \in ObsConfigs, out \in ObsOutcomes : ObsSetupEarlier(cfg, out)) /\ UNCHANGED <<timeVars, appVars, deadlineVars, serviceVars, serverVars, given>>
    \/ (\E fails \in SUBSET Range(cleanupFuncs["observability"]) : MainSetupFailed(fails))
          /\ UNCHANGED <<timeVars, appVars, deadlineVars, serviceVars, serverVars, given>>
    \/ MainServe /\ UNCHANGED <<timeVars, appVars, deadlineVars, serviceVars, serverVars, given>>
    \/ (\E fails \in SUBSET Range(cleanupFuncs["observability"]) : MainReturn(fails))
          /\ UNCHANGED <<timeVars, appVars, deadlineVars, serviceVars, serverVars, given>>

TelemetrySpec == Init /\ [][TelemetryNext]_vars

\* Close against the clock.
TimedNext ==
    \/ (\E o \in TimedOptionInputs, ok \in BOOLEAN : NewClient(o, ok))
          /\ UNCHANGED <<registryVars, timeVars, appVars, deadlineVars, producerVars>>
    \/ (\E t \in Callers : TimedCloseBegin(t)) /\ UNCHANGED <<registryVars, appVars, deadlineVars, producerVars>>
    \/ (\E t \in Callers, d \in 0..MaxTime : TimedCloseDrain(t, d))
          /\ UNCHANGED <<registryVars, appVars, deadlineVars, producerVars>>
    \/ (\E t \in Callers : TimedCloseForce(t)) /\ UNCHANGED <<registryVars, appVars, deadlineVars, producerVars>>
    \/ (\E t \in Callers : Return(t)) /\ UNCHANGED <<registryVars, timeVars, appVars, deadlineVars, producerVars>>
    \/ Disconnected /\ UNCHANGED <<registryVars, timeVars, appVars, deadlineVars, producerVars>>
    \/ Reconnected /\ UNCHANGED <<registryVars, timeVars, appVars, deadlineVars, producerVars>>
    \/ ReconnectFailed /\ UNCHANGED <<registryVars, timeVars, appVars, deadlineVars, producerVars>>
    \/ ConnClosed /\ UNCHANGED <<registryVars, timeVars, appVars, deadlineVars, producerVars>>
    \/ Tick

TimedSpec == Init /\ [][TimedNext]_vars

\* ------------------------------------------------------------------ properties
Occurrences(q, c) == Cardinality({i \in DOMAIN q : q[i] = c})

\* C1: one Cleanup call invokes the registered callbacks in exactly the
\* reverse of their registration order, on every registry.
CleanupRunsInReverse ==
    \A r \in Registries : runs[r] > 0 => trace[r] = Reverse(cleanupFuncs[r])

\* A Cleanup of the observability registry holding all four callbacks ran the
\* last registered one first and the first registered one last.
CleanupRunsInReverseWitness ==
    /\ runs["observability"] > 0
    /\ cleanupFuncs["observability"] = ObsCallbacks
    /\ trace["observability"][1] = ObsCallbacks[4]
    /\ trace["observability"][4] = ObsCallbacks[1]

\* C2: Cleanup invokes every registered callback whichever of them fail, and
\* the error it returns wraps exactly the errors of the callbacks that failed
\* (nil when none failed).
CleanupJoinsExactlyTheFailures ==
    \A r \in Registries :
        runs[r] > 0 =>
            /\ Len(trace[r]) = Len(cleanupFuncs[r])
            /\ Range(trace[r]) = Range(cleanupFuncs[r])
            /\ Range(Flatten(ret[r])) = failed[r]
            /\ Len(Flatten(ret[r])) = Cardinality(failed[r])
            /\ IsNil(ret[r]) <=> failed[r] = {}

\* Two of four callbacks failed, among them the one that ran first, and the
\* other two were still invoked.
CleanupJoinsExactlyTheFailuresWitness ==
    /\ runs["observability"] > 0
    /\ cleanupFuncs["observability"] = ObsCallbacks
    /\ failed["observability"] = {ObsCallbacks[4], ObsCallbacks[2]}
    /\ Len(trace["observability"]) = 4
    /\ Range(Flatten(ret["observability"])) = {ObsCallbacks[4], ObsCallbacks[2]}

\* C3 (as stated): every registered callback is attempted at most once over
\* all Cleanup calls, a second Cleanup call invoking nothing.
CallbackAttemptedOnceForAll ==
    \A r \in Registries : \A c \in Callbacks : invoked[r][c] <= 1

\* C3 (amended): every Cleanup call attempts every registered callback exactly
\* once; Cleanup leaves the list as it was, so k Cleanup calls invoke each
\* callback k times; the queue callback's repeated Client.Close attempts the
\* drain once only.
EveryCleanupAttemptsEachOnce ==
    /\ \A r \in Registries : \A c \in Callbacks :
           invoked[r][c] = runs[r] * Occurrences(cleanupFuncs[r], c)
    /\ drainCalls <= 1
    /\ forceCloses <= 1

\* Two Cleanup calls on the queue registry: its callback ran twice, the drain once.
EveryCleanupAttemptsEachOnceWitness ==
    /\ runs["queue"] = 2
    /\ invoked["queue"][NatsClose] = 2
    /\ drainCalls = 1

\* C4: Publish on a Client that never connected, or that has been closed,
\* returns the not-connected error without reaching the transport: the call
\* returns in the step that takes the lock.
PublishOnClosedFails ==
    \A t \in Callers :
        (op[t] = "Publish" /\ seen[t] \in {"never", "closed"}) =>
            /\ pc[t] = "ret"
            /\ result[t] = "ErrNotConnected"
            /\ t \notin readers

\* A Publish made after Close, on a Client that had been connected, has failed.
PublishOnClosedFailsWitness ==
    \E t \in Callers :
        /\ op[t] = "Publish" /\ seen[t] = "closed" /\ result[t] = "ErrNotConnected"
        /\ newClientRet = "client" /\ drainCalls = 1

\* C5: over any number of Close calls, sequential or concurrent, the drain is
\* attempted at most once, and a Close on a closed or never-connected Client
\* returns at once with no drain and no forced close.
CloseIsIdempotent ==
    /\ drainCalls <= 1
    /\ forceCloses <= 1
    /\ \A t \in Callers :
           (op[t] = "Close" /\ seen[t] \in {"never", "closed"}) =>
               pc[t] = "ret" /\ result[t] = "noop"

\* Two callers have closed the same Client: one drained, the other did nothing.
CloseIsIdempotentWitness ==
    \E t, u \in Callers :
        /\ op[t] = "Close" /\ result[t] = "drained"
        /\ op[u] = "Close" /\ seen[u] = "closed" /\ result[u] = "noop"
        /\ drainCalls = 1

Exhausted ==
    /\ newClientRet = "client"
    /\ opts.MaxReconnects >= 0
    /\ reconnects >= opts.MaxReconnects
    /\ status \in {"RECONNECTING", "CLOSED"}

\* C8: under a finite MaxReconnects = N no more than N reconnect attempts
\* fail in a row, and once they have run out no further attempt is made, the
\* Client never is connected again and every Publish or Subscribe returns the
\* not-connected error.
ReconnectsStopAtMax ==
    /\ [](opts.MaxReconnects >= 0 => reconnects <= opts.MaxReconnects)
    /\ [][Exhausted =>
            /\ Exhausted'
            /\ reconnects' = reconnects
            /\ ~IsConnected'
            /\ \A t \in Callers :
                   (pc[t] = "idle" /\ pc'[t] # "idle" /\ op'[t] # "Close") =>
                       pc'[t] = "ret" /\ result'[t] = "ErrNotConnected"]_vars

\* After two failed attempts under MaxReconnects = 2 the Conn has closed, the
\* Client still holds it, and a Publish has failed.
ReconnectsStopAtMaxWitness ==
    /\ opts.MaxReconnects = 2 /\ reconnects = 2 /\ status = "CLOSED" /\ nc = CONN
    /\ \E t \in Callers : op[t] = "Publish" /\ result[t] = "ErrNotConnected"

\* The Client is Closed: it was connected and its handle has been released.
ClientClosed == newClientRet = "client" /\ nc = NIL

\* C9: once the Client is Closed it stays Closed, IsConnected stays false and
\* no call succeeds again; and the Client becomes Closed only in a step of a
\* Close call, never in a transport event.
ClosedIsTerminalAndCallerDriven ==
    [][/\ ClientClosed =>
            /\ ClientClosed'
            /\ ~IsConnected'
            /\ \A t \in Callers : result'[t] = "ok" => result[t] = "ok"
       /\ (~ClientClosed /\ ClientClosed') =>
            \E t \in Callers : op[t] = "Close" /\ writer = t /\ pc'[t] = "ret"]_vars

\* The Client was closed by a drain, the transport closed afterwards in the
\* background, and a Subscribe made after the Close is on its way out.
ClosedIsTerminalAndCallerDrivenWitness ==
    /\ ClientClosed
    /\ status = "CLOSED"
    /\ forceCloses = 0
    /\ \E t \in Callers : op[t] = "Subscribe" /\ seen[t] = "closed"

\* C27: when a Close call has returned the Client holds no transport handle,
\* whatever it held before, a Conn that the transport had closed by itself
\* (its reconnect attempts exhausted) included.
CloseReleasesHandle ==
    \A t \in Callers : (op[t] = "Close" /\ pc[t] = "ret") => nc = NIL

\* C10 (as stated): every nc.Publish / nc.Subscribe is made while the
\* connection is Connected.
HandoffOnlyWhileConnected ==
    \A h \in handoffs : h[2] = "CONNECTED"

\* C7: a Close returns within the drain timeout plus the grace period of its
\* call, however long the drain takes; on return IsConnected is false and
\* the handle is released; and the transport is closed once the drain
\* timeout plus grace has passed since the call.
CloseReturnsWithinDrainTimeout ==
    /\ closeTook <= opts.DrainTimeout + DrainGrace
    /\ \A t \in Callers :
           (op[t] = "Close" /\ pc[t] = "ret" /\ seen[t] = "open") =>
               /\ ~IsConnected
               /\ nc = NIL
               /\ status \in {"DRAINING", "CLOSED"}
    /\ (drainCalls = 1 /\ closeReturned /\ now > closeStart + opts.DrainTimeout + DrainGrace)
           => status = "CLOSED"

\* A drain used its whole (default) timeout: Close returned after exactly that
\* long, and later the transport is closed.
CloseReturnsWithinDrainTimeoutWitness ==
    /\ opts.DrainTimeout = DefaultDrainTimeout
    /\ closeTook = DefaultDrainTimeout
    /\ now > closeStart + DefaultDrainTimeout + DrainGrace
    /\ nc = NIL
    /\ status = "CLOSED"
    /\ forceCloses = 0

\* C11: NewClient makes one connection attempt.  When it fails NewClient
\* returns an error and no Client, nothing retries and no transport is left
\* behind: the transport never changes state and no reconnect attempt is
\* counted unless NewClient had returned a Client.
ConnectFailureLeavesNothing ==
    /\ [](newClientRet = "error" =>
             /\ nc = NIL
             /\ status = "NONE"
             /\ reconnects = 0
             /\ handoffs = {}
             /\ drainCalls = 0 /\ forceCloses = 0)
    /\ [][(status' # status \/ reconnects' # reconnects) =>
             (newClientRet' = "client" /\ status' # "NONE")]_vars

\* NewClient has failed under a finite reconnect policy.
ConnectFailureLeavesNothingWitness ==
    /\ newClientRet = "error"
    /\ opts.MaxReconnects = 2
    /\ status = "NONE"

\* C12: a Setup (queue, db) given a configuration that disables its subsystem
\* attempts no acquisition, returns an absent handle and no error and
\* registers nothing; every later Cleanup of that registry runs no callback
\* and returns nil.
DisabledSetupRegistersNothing ==
    \A r \in {"queue", "db"} :
        (mgr[r] /\ ~enabledCfg[r]) =>
            /\ acquire[r] = "skipped"
            /\ handle[r] = "absent"
            /\ ~setupErr[r]
            /\ cleanupFuncs[r] = <<>>
            /\ r = "queue" => newClientRet = "none" /\ status = "NONE"
            /\ runs[r] > 0 => trace[r] = <<>> /\ IsNil(ret[r])
            /\ \A c \in Callbacks : invoked[r][c] = 0

\* Both subsystems were disabled and both registries have been cleaned up.
DisabledSetupRegistersNothingWitness ==
    /\ mgr["queue"] /\ ~enabledCfg["queue"] /\ runs["queue"] > 0
    /\ mgr["db"] /\ ~enabledCfg["db"] /\ runs["db"] > 0

\* C13: a Setup (queue, db) whose subsystem is enabled and whose acquisition
\* succeeds returns a live handle with exactly that handle's close function
\* registered; and at all times after Setup the handle is live if and only if
\* the registry holds its close function.
LiveHandleIffRegistered ==
    /\ \A r \in {"queue", "db"} :
           (mgr[r] /\ enabledCfg[r] /\ acquire[r] = "ok") => handle[r] = "live"
    /\ mgr["queue"] =>
           /\ handle["queue"] = "live" <=> cleanupFuncs["queue"] = <<NatsClose>>
           /\ handle["queue"] # "live" => cleanupFuncs["queue"] = <<>>
    /\ mgr["db"] =>
           /\ handle["db"] = "live" <=> cleanupFuncs["db"] = <<PgClose>>
           /\ handle["db"] # "live" => cleanupFuncs["db"] = <<>>

\* Both acquisitions succeeded; the queue registry has since been cleaned up
\* and still holds the one close function.
LiveHandleIffRegisteredWitness ==
    /\ handle["queue"] = "live" /\ handle["db"] = "live"
    /\ runs["queue"] > 0
    /\ cleanupFuncs["queue"] = <<NatsClose>>
    /\ cleanupFuncs["db"] = <<PgClose>>

\* C15 (as stated): an enabled subsystem that policy marks as mandatory and
\* whose acquisition fails makes its Setup return a hard error.
MandatoryFailureAborts ==
    \A r \in {"queue", "db"} :
        (mgr[r] /\ enabledCfg[r] /\ policy[r] = "mandatory" /\ acquire[r] = "failed")
            => setupErr[r]

\* C14 (as stated): when the message bus is enabled and its acquisition
\* fails, startup is not aborted and every publish attempt the application
\* makes afterwards (the startup publish of Run, PublishMessage for a
\* request) ends in an error result, never in a panic or a crash.
DegradedBusKeepsRunning ==
    (queueEnabled /\ enabledCfg["queue"] /\ acquire["queue"] = "failed") =>
        /\ appPc \notin {"aborted", "crashed"}
        /\ \A a \in pubOutcomes : a[2] = "error"

\* C16 (as stated): a termination signal received while the application is
\* serving leads to Cleanup being invoked on every registry setup produced
\* and then to Run returning: the process does not end in any other way.
SignalEndsInCleanup ==
    (signalled = "serving" /\ appPc \in Ended) =>
        /\ appPc = "done"
        /\ queueMgr => runs["queue"] > 0
        /\ obsMgr => runs["observability"] > 0

\* Run has returned: the server's error out of its select, or the result of
\* shutdown.
RunReturned == appPc \in {"serverErr", "done"}

\* C29: whenever Run has returned, on a termination signal or on a failure of
\* the HTTP server, Cleanup has been invoked on every registry the
\* application holds (queue and observability): no return skips the teardown.
RunReturnsAfterCleanup ==
    RunReturned =>
        /\ queueMgr => runs["queue"] > 0
        /\ obsMgr => runs["observability"] > 0

\* The same of the return that follows a termination signal.
SignalReturnsAfterCleanup == appPc = "done" => RunReturnsAfterCleanup

\* C30: however the goroutine that runs Start interleaves with the signal,
\* from the moment shutdown has returned the HTTP server is not listening,
\* at that moment or at any later one: a Shutdown that ran before Start had
\* made the http.Server leaves no server that comes up afterwards.
ShutdownLeavesNoListener == appPc = "done" => ~listening

\* The same of a shutdown whose Shutdown call found the running http.Server.
StoppedServerStaysDown == (appPc = "done" /\ inShutdown) => ~listening

\* C17 (as stated): the deadline a Cleanup gives its callbacks is its own
\* ceiling counted from the start of that Cleanup, whatever time the earlier
\* shutdown steps and the other registries' Cleanups have taken.
CleanupDeadlineIsOwnCeiling ==
    \A r \in Registries :
        cleanupStart[r] >= 0 => cleanupDeadline[r] = cleanupStart[r] + CleanupTimeout(r)

\* C17 (amended): the deadline a Cleanup gives its callbacks is the earlier
\* of its own ceiling counted from the start of that Cleanup and the deadline
\* of the context it was called with; the producer calls the queue and the
\* observability Cleanup with the one shutdown context, made when shutdown
\* began, so that the time earlier steps took can shorten it.
CleanupDeadlineIsCappedCeiling ==
    \A r \in Registries :
        cleanupStart[r] >= 0 =>
            /\ cleanupDeadline[r] <= cleanupStart[r] + CleanupTimeout(r)
            /\ cleanupParent[r] # -1 => cleanupDeadline[r] <= cleanupParent[r]
            /\ \/ cleanupDeadline[r] = cleanupStart[r] + CleanupTimeout(r)
               \/ cleanupDeadline[r] = cleanupParent[r]
            /\ r \in {"queue", "observability"} =>
                   /\ cleanupParent[r] = shutdownDeadline
                   /\ shutdownDeadline <= cleanupStart[r] + ShutdownTimeout

\* The HTTP server took so long to shut down that the queue Cleanup, which
\* started then, gave its callback less than its ceiling.
CleanupDeadlineIsCappedCeilingWitness ==
    /\ cleanupStart["queue"] > ShutdownTimeout - QueueCleanupTimeout
    /\ cleanupDeadline["queue"] = ShutdownTimeout
    /\ cleanupDeadline["queue"] < cleanupStart["queue"] + QueueCleanupTimeout
    /\ runs["queue"] = 1

\* C18 (as stated): a Cleanup has returned once its deadline has expired,
\* also when one of its callbacks never completes on its own.
CleanupReturnsByDeadline ==
    \A r \in Registries :
        cleaning = r => (now <= cleanupDeadline[r] \/ now = cleanupStart[r])

\* C19: on one Client, Close changes the Client's state only while it holds
\* c.mu exclusively, and Publish, Subscribe and IsConnected read c.nc and call
\* the Conn only while they hold c.mu for reading.  Whoever holds the read
\* lock has no Close in progress beside it, and a caller about to call the
\* Conn still has the handle; the holder of the exclusive lock is the only
\* caller inside Close and has no reader beside it; c.nc changes only under
\* the exclusive lock (or in NewClient, before there is a Client to call);
\* and every step of Publish, Subscribe or IsConnected happens with no Close
\* in progress, a successful one with the handle present.
LockDiscipline ==
    /\ [](\A t \in Callers :
              (t \in readers <=> pc[t] \in {"forward", "query"}) /\
              (t \in readers => writer = 0) /\
              (pc[t] = "forward" => nc # NIL))
    /\ [](writer # 0 =>
              /\ readers = {}
              /\ \A t \in Callers : pc[t] \in {"drain", "force"} <=> t = writer)
    /\ [](writer = 0 => \A t \in Callers : pc[t] \notin {"drain", "force"})
    /\ [][nc' # nc => (writer # 0 /\ readers = {}) \/ newClientRet = "none"]_vars
    /\ [][\A t \in Callers :
              (op'[t] \in {"Publish", "Subscribe", "IsConnected"} /\ pc'[t] # pc[t]
                   /\ pc'[t] # "idle") =>
              (writer = 0 /\ writer' = 0 /\ (result'[t] \in {"ok", "true"} => nc # NIL))]_vars

\* C19 (witness): two callers hold the read lock at the same time, one of
\* them inside IsConnected, the other about to call the Conn.
LockDisciplineWitness ==
    \E t, u \in Callers :
        /\ t # u
        /\ {t, u} \subseteq readers
        /\ op[t] = "IsConnected" /\ pc[t] = "query"
        /\ op[u] \in {"Publish", "Subscribe"} /\ pc[u] = "forward"

\* Publish calls the publisher has received on a subject, over all payloads.
ReceivedOn(subject) ==
    LET ps == {p \in Payloads : received[<<subject, p>>] > 0}
        Sum[S \in SUBSET Payloads] ==
            IF S = {} THEN 0
            ELSE LET p == CHOOSE q \in S : TRUE
                 IN  received[<<subject, p>>] + Sum[S \ {p}]
    IN  Sum[ps]

\* C21: with a working publisher under any interleaving of concurrent
\* PublishMessage callers, every call returns nil, and on every subject the
\* publisher has received exactly one Publish for each call made on that
\* subject that has got past its publisher call, carrying the caller's subject
\* and the marshalled message: none is lost and none duplicated.
EveryCallPublishedOnce ==
    mock = "working" =>
        /\ \A t \in Callers : pmPc[t] = "ret" => pmRet[t] = "nil"
        /\ \A s \in Subjects :
              ReceivedOn(s) + Cardinality({t \in Callers :
                                 pmPc[t] = "publish" /\ pmArgs[t].subject = s})
                  = pmCalls[s]
        /\ \A t \in Callers : pmPc[t] = "ret" =>
              received[<<pmArgs[t].subject, Marshal(pmArgs[t].message).data>>] > 0

\* C21 (witness): two callers have published concurrently on one subject and
\* have not returned yet, after an earlier call on it has completed.
EveryCallPublishedOnceWitness ==
    /\ mock = "working"
    /\ \E t, u \in Callers :
         /\ t # u
         /\ pmPc[t] = "ret" /\ pmPc[u] = "ret"
         /\ pmArgs[t].subject = pmArgs[u].subject
         /\ pmCalls[pmArgs[t].subject] = MaxPublishes
         /\ ReceivedOn(pmArgs[t].subject) = MaxPublishes

\* A step in which Server.Shutdown is called: by shutdown, or directly.
ShutdownCalled ==
    \/ appPc = "shutdown" /\ appPc' \in {"cleanQueue", "draining"}
    \/ appPc = "init" /\ shutdownRet' # shutdownRet

\* C22: Server.Shutdown called on a Server whose Start has not run returns
\* nil and changes nothing: not the Server, not an http.Server, not the
\* client or the registries.
ShutdownBeforeStartIsNoop ==
    [][(ShutdownCalled /\ srvGo \in {"none", "spawned"}) =>
          /\ shutdownRet' = "nil"
          /\ UNCHANGED <<srvGo, srvField, inShutdown, listening, active, startRet, server>>
          /\ UNCHANGED <<clientVars, registryVars>>]_vars

\* C22 (witness): Shutdown has returned nil on a Server that was made and
\* never started.
ShutdownBeforeStartIsNoopWitness ==
    /\ appPc = "init"
    /\ srvGo = "none"
    /\ srvField = "nil"
    /\ shutdownRet = "nil"

\* C23: the error Cleanup returns lists the failures of its callbacks in the
\* order in which the callbacks ran, that is in reverse registration order:
\* read front to back it is the run of the last Cleanup with the callbacks
\* that succeeded left out.
AggregateFollowsExecutionOrder ==
    \A r \in Registries :
        runs[r] > 0 =>
            /\ Flatten(ret[r]) = SelectSeq(trace[r], LAMBDA c : c \in failed[r])
            /\ Flatten(ret[r]) =
                  SelectSeq(Reverse(cleanupFuncs[r]), LAMBDA c : c \in failed[r])

\* C23 (witness): of the four observability callbacks the first and the
\* third registered failed; the error lists the third before the first.
AggregateFollowsExecutionOrderWitness ==
    /\ runs["observability"] > 0
    /\ cleanupFuncs["observability"] = ObsCallbacks
    /\ failed["observability"] = {ObsCallbacks[1], ObsCallbacks[3]}
    /\ Flatten(ret["observability"]) = <<ObsCallbacks[3], ObsCallbacks[1]>>

\* C24: shutdown takes the components down in the reverse of the order NewApp
\* set them up: the HTTP server, then the queue registry, then the
\* observability registry.  Whatever a step returned the next step follows,
\* no step is made twice, a registry is cleaned only at its own step, and
\* when shutdown has returned every step was made on what exists.
ShutdownWalksEveryStep ==
    /\ [][/\ handle'["observability"] # handle["observability"] => appPc = "init"
          /\ handle'["queue"] # handle["queue"] => appPc = "obsReady"
          /\ srvGo' # srvGo => appPc \notin {"init", "obsReady"}
          /\ appPc = "shutdown" => appPc' \in {"shutdown", "draining", "cleanQueue", "crashed"}
          /\ appPc = "draining" => appPc' \in {"draining", "cleanQueue", "crashed"}
          /\ appPc = "cleanQueue" => appPc' \in {"cleanQueue", "cleanObs", "crashed"}
          /\ appPc = "cleanObs" => appPc' \in {"cleanObs", "done", "crashed"}
          /\ runs'["queue"] # runs["queue"] =>
                appPc = "cleanQueue" /\ appPc' = "cleanObs" /\ runs["queue"] = 0
          /\ runs'["observability"] # runs["observability"] =>
                appPc = "cleanObs" /\ appPc' = "done" /\ runs["observability"] = 0
          /\ (appPc \in {"cleanQueue", "cleanObs", "done"} /\ ~exited') =>
                shutdownRet' = shutdownRet]_vars
    /\ [](appPc = "done" =>
              /\ shutdownRet \in {"nil", "deadline"}
              /\ runs["queue"] = (IF queueMgr THEN 1 ELSE 0)
              /\ runs["observability"] = (IF obsMgr THEN 1 ELSE 0))

\* C24 (witness): the server's Shutdown ran into its deadline and a callback
\* of the observability registry failed; both registries were cleaned once
\* and shutdown returned.
ShutdownWalksEveryStepWitness ==
    /\ appPc = "done"
    /\ shutdownRet = "deadline"
    /\ queueMgr /\ runs["queue"] = 1
    /\ obsMgr /\ runs["observability"] = 1
    /\ ~IsNil(ret["observability"])

====
